---------------------------- MODULE Spec2Model ----------------------------
(***************************************************************************)
(* A model of the BDF font codec (crate bdf): the Bitmap value type, the   *)
(* bitmap hex-row codec, Property::parse, the line parser Reader::entry,   *)
(* the record writer Writer::entry, the assembler read() and the           *)
(* serializer write().                                                     *)
(*                                                                         *)
(* Text is modelled as a sequence of characters.  A character is a         *)
(* one-character string; each reserved identifier of the format            *)
(* ("STARTFONT", "BITMAP", ...) is spelled as one symbol of the alphabet,  *)
(* since the parser only ever compares a whole identifier with it.         *)
(* A line is such a sequence without its line terminator.                  *)
(*                                                                         *)
(* A u64 is modelled as four 16-bit limbs, so that the shifts of the codec  *)
(* lose exactly the bits the machine loses.                                *)
(***************************************************************************)
EXTENDS Integers, Sequences, FiniteSets, TLC

VARIABLES
    map,       \* the Bitmap object the calls of the Bitmap API act on
    entry,     \* the record handed to Writer::entry
    input,     \* the lines the Reader was opened on
    sink,      \* the lines handed to the Writer's stream so far
    stream,    \* Reader.stream: the lines not yet consumed
    reader,    \* Reader: [line_number, default, current]
    ret,       \* the outcome of the last call
    pc,        \* position of the running scenario
    font,      \* read()'s font under assembly, or the Font handed to write()
    glyph,     \* read()'s glyph under assembly
    in_font,   \* read()'s scope flags
    in_props,
    in_char,
    skip_current_char,
    accepted,  \* history: the kinds of record read() has stored at font top level
    outcomes   \* history: the calls of entry() made on the Reader, in order

\* the locals of read(), and the history
assembly ==
    <<font, glyph, in_font, in_props, in_char, skip_current_char, accepted, outcomes>>

vars == <<map, entry, input, sink, stream, reader, ret, pc, assembly>>

---------------------------------------------------------------------------
(* Option<T> *)

None == [some |-> FALSE]

Some(x) == [some |-> TRUE, value |-> x]

---------------------------------------------------------------------------
(* u64 arithmetic, on four 16-bit limbs (limb 1 the least significant) *)

\* number of bits of the row accumulator (u64)
U64Bits == 64

\* the widest bitmap row the accumulator holds
MaxWidth == 64

LimbBits == 16

Limb == 65536

Zero64 == <<0, 0, 0, 0>>

\* value << n on u64, for n < 16: bits shifted past bit 63 are lost
Shl(value, n) ==
    LET p == 2 ^ n
    IN  <<(value[1] * p) % Limb,
          ((value[2] * p) % Limb) + ((value[1] * p) \div Limb),
          ((value[3] * p) % Limb) + ((value[2] * p) \div Limb),
          ((value[4] * p) % Limb) + ((value[3] * p) \div Limb)>>

\* value >> n on u64, for n < 16
Shr(value, n) ==
    LET p == 2 ^ n
        q == 2 ^ (LimbBits - n)
    IN  <<(value[1] \div p) + ((value[2] % p) * q),
          (value[2] \div p) + ((value[3] % p) * q),
          (value[3] \div p) + ((value[4] % p) * q),
          value[4] \div p>>

\* (value >> b) & 1 == 1, for b < 64
Bit(value, b) == (value[(b \div LimbBits) + 1] \div (2 ^ (b % LimbBits))) % 2 = 1

\* value | bit, for bit in {0, 1}
OrBit(value, bit) ==
    IF bit = 1 /\ value[1] % 2 = 0 THEN [value EXCEPT ![1] = @ + 1] ELSE value

\* the k-th hexadecimal digit (k = 0 the least significant) of a u64
Nibble(value, k) == (value[(k \div 4) + 1] \div (16 ^ (k % 4))) % 16

SetMax(S) == CHOOSE m \in S : \A n \in S : n <= m

HexUpper == <<"0", "1", "2", "3", "4", "5", "6", "7",
              "8", "9", "A", "B", "C", "D", "E", "F">>

HexLower == <<"0", "1", "2", "3", "4", "5", "6", "7",
              "8", "9", "a", "b", "c", "d", "e", "f">>

IsHexDigit(c) == \E i \in 1..16 : HexUpper[i] = c \/ HexLower[i] = c

\* char::to_digit(16)
HexVal(c) == (CHOOSE i \in 1..16 : HexUpper[i] = c \/ HexLower[i] = c) - 1

Zeros(n) == [i \in 1..n |-> "0"]

\* format!("{:0>1$X}", value, hex_width): uppercase hexadecimal of value, at
\* least one digit, right-aligned in hex_width columns filled with '0'
FormatHex(value, hex_width) ==
    LET used == {k \in 0..15 : Nibble(value, k) # 0}
        n == IF used = {} THEN 1 ELSE SetMax(used) + 1
        digits == [i \in 1..n |-> HexUpper[Nibble(value, n - i) + 1]]
    IN  IF n < hex_width THEN Zeros(hex_width - n) \o digits ELSE digits

\* u64::from_str_radix(s, 16) from digit i on, value being the digits read so
\* far: an invalid digit or a value past 2^64 - 1 is an error
RECURSIVE ParseHexFrom(_, _, _)
ParseHexFrom(s, i, value) ==
    IF i > Len(s) THEN [ok |-> TRUE, value |-> value]
    ELSE IF ~IsHexDigit(s[i]) THEN [ok |-> FALSE, value |-> Zero64]
    ELSE IF Nibble(value, 15) # 0 THEN [ok |-> FALSE, value |-> Zero64]
    ELSE ParseHexFrom(s, i + 1, [Shl(value, 4) EXCEPT ![1] = @ + HexVal(s[i])])

\* u64::from_str_radix(s, 16): empty text and a lone sign are errors, one
\* leading '+' is accepted, '-' is not a digit of an unsigned type
ParseHex(s) ==
    IF Len(s) = 0 THEN [ok |-> FALSE, value |-> Zero64]
    ELSE IF s[1] = "+" THEN
        IF Len(s) = 1 THEN [ok |-> FALSE, value |-> Zero64]
        ELSE ParseHexFrom(s, 2, Zero64)
    ELSE ParseHexFrom(s, 1, Zero64)

---------------------------------------------------------------------------
(* Bitmap *)

\* Bitmap::new(width, height)
BitmapNew(width, height) == [width |-> width, height |-> height, bits |-> {}]

\* Bitmap::get: the pixel, or the panic of a coordinate outside the bitmap
BitmapGet(m, x, y) ==
    IF y >= m.height \/ x >= m.width
    THEN [tag |-> "Panic"]
    ELSE [tag |-> "Ok", value |-> (y * m.width + x) \in m.bits]

\* a Bitmap::set that ignores a coordinate outside the bitmap
BitmapSetSilent(m, x, y, value) ==
    IF y >= m.height \/ x >= m.width
    THEN [tag |-> "Ok", map |-> m]
    ELSE [tag |-> "Ok",
          map |-> [m EXCEPT !.bits =
                      IF value THEN @ \cup {y * m.width + x}
                               ELSE @ \ {y * m.width + x}]]

\* Bitmap::set: the bitmap after the call and how the call ended; a coordinate
\* outside the bitmap panics before anything is stored
BitmapSet(m, x, y, value) ==
    IF y >= m.height \/ x >= m.width
    THEN [tag |-> "Panic", map |-> m]
    ELSE [tag |-> "Ok",
          map |-> [m EXCEPT !.bits =
                      IF value THEN @ \cup {y * m.width + x}
                               ELSE @ \ {y * m.width + x}]]

---------------------------------------------------------------------------
(* text *)

Space == " "

Quote == "\""

\* char::is_whitespace, on the characters of the model's alphabet
IsWhitespace(c) == c = Space \/ c = "\t"

\* str::find(c): the index (from 1) of the first c in s, 0 when there is none
Find(s, c) ==
    IF \E i \in 1..Len(s) : s[i] = c
    THEN CHOOSE i \in 1..Len(s) : s[i] = c /\ \A j \in 1..(i - 1) : s[j] # c
    ELSE 0

\* str::trim: s without its leading and trailing whitespace
Trim(s) ==
    LET keep == {i \in 1..Len(s) : ~IsWhitespace(s[i])}
    IN  IF keep = {} THEN <<>>
        ELSE SubSeq(s, CHOOSE i \in keep : \A j \in keep : i <= j, SetMax(keep))

\* str::split(' '): the pieces between the spaces, empty pieces included; the
\* empty text splits into one empty piece
RECURSIVE Split(_)
Split(s) ==
    LET n == Find(s, Space)
    IN  IF n = 0 THEN <<s>>
        ELSE <<SubSeq(s, 1, n - 1)>> \o Split(SubSeq(s, n + 1, Len(s)))

Digits == <<"0", "1", "2", "3", "4", "5", "6", "7", "8", "9">>

IsDigit(c) == \E i \in 1..10 : Digits[i] = c

DigitVal(c) == (CHOOSE i \in 1..10 : Digits[i] = c) - 1

RECURSIVE DecimalValue(_, _)
DecimalValue(s, n) ==
    IF n = 0 THEN 0 ELSE 10 * DecimalValue(s, n - 1) + DigitVal(s[n])

\* the integer types of the records: signedness, and whether a numeral of
\* the model can overflow the type.  The numerals of the model's lines are
\* short: none overflows a 32 or 64 bit type, u16 is the one they can.
U16Max == 65535

U16 == [signed |-> FALSE, bounded |-> TRUE]

U32 == [signed |-> FALSE, bounded |-> FALSE]

I32 == [signed |-> TRUE, bounded |-> FALSE]

I64 == [signed |-> TRUE, bounded |-> FALSE]

Usize == [signed |-> FALSE, bounded |-> FALSE]

\* str::parse::<T>() for an integer type T: an optional sign ('-' only for a
\* signed type) and at least one decimal digit, nothing else
ParseInt(s, T) ==
    LET signed == Len(s) > 0 /\ (s[1] = "+" \/ (s[1] = "-" /\ T.signed))
        body == IF signed THEN SubSeq(s, 2, Len(s)) ELSE s
        wellformed == /\ Len(body) > 0
                      /\ \A i \in 1..Len(body) : IsDigit(body[i])
        magnitude == DecimalValue(body, Len(body))
    IN  IF ~wellformed THEN [ok |-> FALSE, value |-> 0]
        ELSE IF T.bounded /\ magnitude > U16Max THEN [ok |-> FALSE, value |-> 0]
        ELSE [ok |-> TRUE,
              value |-> IF signed /\ s[1] = "-" THEN 0 - magnitude ELSE magnitude]

RECURSIVE FormatNat(_)
FormatNat(n) ==
    IF n < 10 THEN <<Digits[n + 1]>>
    ELSE FormatNat(n \div 10) \o <<Digits[(n % 10) + 1]>>

\* Display of an integer ("{}")
FormatInt(n) == IF n < 0 THEN <<"-">> \o FormatNat(0 - n) ELSE FormatNat(n)

\* char::from_u32: the surrogates and the values past 0x10FFFF are no char
SurrogateFirst == 55296

SurrogateLast == 57343

CharMax == 1114111

IsScalar(n) == n <= CharMax /\ ~(SurrogateFirst <= n /\ n <= SurrogateLast)

\* str::replace("\"\"", "\""): left to right, matches do not overlap
RECURSIVE Undouble(_)
Undouble(s) ==
    IF Len(s) = 0 THEN <<>>
    ELSE IF Len(s) >= 2 /\ s[1] = Quote /\ s[2] = Quote
         THEN <<Quote>> \o Undouble(SubSeq(s, 3, Len(s)))
         ELSE <<s[1]>> \o Undouble(Tail(s))

\* a text written as it is, its quotes not doubled
DoubleNone(s) == s

\* str::replace("\"", "\"\"")
RECURSIVE Double(_)
Double(s) ==
    IF Len(s) = 0 THEN <<>>
    ELSE (IF s[1] = Quote THEN <<Quote, Quote>> ELSE <<s[1]>>) \o Double(Tail(s))

---------------------------------------------------------------------------
(* Result<T, Error>, and a panic of the call *)

Ok(x) == [tag |-> "Ok", value |-> x]

Err(e) == [tag |-> "Err", error |-> e]

Panic == [tag |-> "Panic"]

IsOk(r) == r.tag = "Ok"

IsErr(r) == r.tag = "Err"

IsPanic(r) == r.tag = "Panic"

---------------------------------------------------------------------------
(* Property *)

PropertyString(s) == [tag |-> "String", string |-> s]

PropertyInteger(n) == [tag |-> "Integer", int |-> n]

\* Property::extract: the text between the first and the last character, with
\* doubled quotes undoubled.  The slice string[1..len-1] panics on a text
\* shorter than two characters.
PropertyExtract(string) ==
    IF Len(string) < 2 THEN Panic
    ELSE Ok(Undouble(SubSeq(string, 2, Len(string) - 1)))

\* Property::parse
PropertyParse(string) ==
    IF Len(string) > 0 /\ string[1] = Quote THEN
        LET e == PropertyExtract(string)
        IN  IF IsPanic(e) THEN Panic ELSE Ok(PropertyString(e.value))
    ELSE IF ParseInt(string, I64).ok THEN Ok(PropertyInteger(ParseInt(string, I64).value))
    ELSE Ok(PropertyString(string))

---------------------------------------------------------------------------
(* Entry, BoundingBox, Error *)

BoundingBox(width, height, x, y) == [width |-> width, height |-> height, x |-> x, y |-> y]

StartFont(string) == [tag |-> "StartFont", string |-> string]

Comment(string) == [tag |-> "Comment", string |-> string]

ContentVersion(string) == [tag |-> "ContentVersion", string |-> string]

FontName(string) == [tag |-> "Font", string |-> string]

Size(pt, x, y) == [tag |-> "Size", pt |-> pt, x |-> x, y |-> y]

Chars(n) == [tag |-> "Chars", n |-> n]

FontBoundingBox(bbx) == [tag |-> "FontBoundingBox", bbx |-> bbx]

EndFont == [tag |-> "EndFont"]

StartProperties(n) == [tag |-> "StartProperties", n |-> n]

PropertyEntry(name, value) == [tag |-> "Property", name |-> name, value |-> value]

EndProperties == [tag |-> "EndProperties"]

StartChar(string) == [tag |-> "StartChar", string |-> string]

\* a char is modelled as its scalar value
Encoding(codepoint) == [tag |-> "Encoding", codepoint |-> codepoint]

DirectionEntry(direction) == [tag |-> "Direction", direction |-> direction]

\* ScalableWidth, DeviceWidth, AlternateScalableWidth, AlternateDeviceWidth
\* and Vector: tag is the variant's name
Pair(tag, x, y) == [tag |-> tag, x |-> x, y |-> y]

BoundingBoxEntry(bbx) == [tag |-> "BoundingBox", bbx |-> bbx]

BitmapEntry(m) == [tag |-> "Bitmap", map |-> m]

EndChar == [tag |-> "EndChar"]

Unknown(id) == [tag |-> "Unknown", id |-> id]

MissingVersion(line, line_number) ==
    [kind |-> "MissingVersion", line |-> line, line_number |-> line_number]

MissingValue(property_name, line_number) ==
    [kind |-> "MissingValue", property_name |-> property_name, line_number |-> line_number]

MissingBoundingBox(line, line_number) ==
    [kind |-> "MissingBoundingBox", line |-> line, line_number |-> line_number]

InvalidCodepoint(line, line_number) ==
    [kind |-> "InvalidCodepoint", line |-> line, line_number |-> line_number]

ParseError(line, line_number) ==
    [kind |-> "Parse", line |-> line, line_number |-> line_number]

End == [kind |-> "End"]

MalformedFont == [kind |-> "MalformedFont"]

MalformedProperties == [kind |-> "MalformedProperties"]

MalformedChar == [kind |-> "MalformedChar"]

\* the identifiers Reader::entry dispatches on
PairTags == [SWIDTH |-> "ScalableWidth", DWIDTH |-> "DeviceWidth",
             SWIDTH1 |-> "AlternateScalableWidth", DWIDTH1 |-> "AlternateDeviceWidth",
             VVECTOR |-> "Vector"]

PairIds == DOMAIN PairTags

Reserved == {"COMMENT", "STARTFONT", "FONT", "SIZE", "FONTBOUNDINGBOX",
             "CONTENTVERSION", "CHARS", "STARTCHAR", "ENCODING", "METRICSSET",
             "BBX", "BITMAP", "ENDCHAR", "ENDFONT", "STARTPROPERTIES",
             "ENDPROPERTIES"} \cup PairIds

---------------------------------------------------------------------------
(* Reader *)

\* Reader::from(stream)
ReaderNew == [line_number |-> 0, default |-> None, current |-> None]

\* what one call leaves behind: its result, the Reader's fields, the stream
Out(r, rd, st) == [ret |-> r, reader |-> rd, stream |-> st]

\* the number of empty lines at the head of the stream
RECURSIVE LeadingEmpty(_)
LeadingEmpty(st) ==
    IF Len(st) = 0 \/ Len(st[1]) # 0 THEN 0 ELSE 1 + LeadingEmpty(Tail(st))

\* parse_int! over the pieces of rest: whether the number of pieces is the
\* arity, whether every piece parses as its type, and the values
Fields(rest, types) ==
    LET split == Split(rest)
    IN  IF Len(split) # Len(types)
        THEN [count |-> FALSE, ok |-> FALSE, values |-> <<>>]
        ELSE [count |-> TRUE,
              ok |-> \A i \in 1..Len(types) : ParseInt(split[i], types[i]).ok,
              values |-> [i \in 1..Len(types) |-> ParseInt(split[i], types[i]).value]]

\* the arms of SIZE, FONTBOUNDINGBOX, BBX and the width pairs: no remainder
\* or a wrong number of pieces is MissingValue, a piece that is no integer of
\* its type is Parse; otherwise the numbers
Numeric(id, rest, types, line, line_number) ==
    IF ~rest.some THEN Err(MissingValue(id, line_number))
    ELSE LET f == Fields(rest.value, types)
         IN  IF ~f.count THEN Err(MissingValue(id, line_number))
             ELSE IF ~f.ok THEN Err(ParseError(line, line_number))
             ELSE Ok(f.values)

\* a CHARS arm that splits the remainder and wants one piece
CountOne(id, rest, line, line_number) ==
    IF ~rest.some THEN Err(MissingValue(id, line_number))
    ELSE IF Len(Split(rest.value)) # 1 THEN Err(MissingValue(id, line_number))
    ELSE IF ~ParseInt(rest.value, Usize).ok THEN Err(ParseError(line, line_number))
    ELSE Ok(ParseInt(rest.value, Usize).value)

\* the arms of CHARS and STARTPROPERTIES: the whole remainder is one integer
Count(id, rest, line, line_number) ==
    IF ~rest.some THEN Err(MissingValue(id, line_number))
    ELSE IF ~ParseInt(rest.value, Usize).ok THEN Err(ParseError(line, line_number))
    ELSE Ok(ParseInt(rest.value, Usize).value)

\* the arms of FONT, CONTENTVERSION and STARTCHAR: the remainder
Text(id, rest, line_number) ==
    IF rest.some THEN Ok(rest.value) ELSE Err(MissingValue(id, line_number))

\* Ok(record) when r is Ok, r's error otherwise
Then(r, record) == IF IsOk(r) THEN Ok(record) ELSE r

\* the COMMENT arm
EntryComment(rest) ==
    IF rest.some THEN
        LET e == PropertyExtract(rest.value)
        IN  IF IsPanic(e) THEN Panic ELSE Ok(Comment(e.value))
    ELSE Ok(Comment(<<>>))

\* a STARTFONT arm that reports the missing version as a missing value
EntryStartFontGeneric(rest, line, line_number) ==
    IF rest.some THEN Ok(StartFont(rest.value))
    ELSE Err(MissingValue(<<"STARTFONT">>, line_number))

\* the STARTFONT arm
EntryStartFont(rest, line, line_number) ==
    IF rest.some THEN Ok(StartFont(rest.value))
    ELSE Err(MissingVersion(line, line_number))

\* the ENCODING arm: a remainder that is no u32, or a u32 that is no char, is
\* InvalidCodepoint
EntryEncoding(id, rest, line, line_number) ==
    IF ~rest.some THEN Err(MissingValue(id, line_number))
    ELSE IF ~ParseInt(rest.value, U32).ok THEN Err(InvalidCodepoint(line, line_number))
    ELSE IF ~IsScalar(ParseInt(rest.value, U32).value)
         THEN Err(InvalidCodepoint(line, line_number))
    ELSE Ok(Encoding(ParseInt(rest.value, U32).value))

\* a METRICSSET arm that takes every other remainder for 0
EntryDirectionLenient(id, rest, line_number) ==
    IF ~rest.some THEN Err(MissingValue(id, line_number))
    ELSE CASE rest.value = <<"1">> -> Ok(DirectionEntry("Alternate"))
           [] rest.value = <<"2">> -> Ok(DirectionEntry("Both"))
           [] OTHER -> Ok(DirectionEntry("Default"))

\* the METRICSSET arm
EntryDirection(id, rest, line_number) ==
    IF ~rest.some THEN Err(MissingValue(id, line_number))
    ELSE CASE rest.value = <<"0">> -> Ok(DirectionEntry("Default"))
           [] rest.value = <<"1">> -> Ok(DirectionEntry("Alternate"))
           [] rest.value = <<"2">> -> Ok(DirectionEntry("Both"))
           [] OTHER -> Err(MissingValue(id, line_number))

\* the default arm: an identifier that is none of the reserved ones
EntryOther(id, rest) ==
    IF rest.some THEN
        LET v == PropertyParse(rest.value)
        IN  IF IsPanic(v) THEN Panic ELSE Ok(PropertyEntry(id, v.value))
    ELSE Ok(Unknown(id))

\* a bounding box with its offsets exchanged
MakeBoxSwapped(v) == BoundingBox(v[1], v[2], v[4], v[3])

\* BoundingBox { width, height, x, y } of the four numbers, in that order
MakeBox(v) == BoundingBox(v[1], v[2], v[3], v[4])

BoxTypes == <<U32, U32, I32, I32>>

\* the shift that drops the padding bits of a row
ReaderPad(width) == (8 - (width % 8)) % 8

\* a decoding that stores bit x of the row in column x
DecodeRowLsb(width, y, row) ==
    {y * width + x : x \in {b \in 0..(width - 1) : Bit(row, b)}}

\* the pixels one row gives: map.set(width - x - 1, y, (row >> x) & 1 == 1)
\* for x in 0..width, on a bitmap that has no pixel of the row set
DecodeRow(width, y, row) ==
    {y * width + (width - x - 1) : x \in {b \in 0..(width - 1) : Bit(row, b)}}

\* the loop over the rows taken: row y + 1 of st is parsed and shifted and its
\* pixels are stored; a row that is no hexadecimal u64 ends the loop with the
\* error, the rows before it consumed
RECURSIVE DecodeRows(_, _, _, _, _)
DecodeRows(st, width, taken, y, bits) ==
    IF y >= taken THEN [ok |-> TRUE, bits |-> bits, consumed |-> taken]
    ELSE LET parsed == ParseHex(st[y + 1]) IN
        IF ~parsed.ok THEN [ok |-> FALSE, bits |-> bits, consumed |-> y + 1]
        ELSE DecodeRows(st, width, taken, y + 1,
                bits \cup DecodeRow(width, y, Shr(parsed.value, ReaderPad(width))))

\* a BITMAP arm that clears the character's bounding box before it reads the
\* rows
EntryBitmapClears(line, rd, st) ==
    IF ~rd.current.some /\ ~rd.default.some
    THEN Out(Err(MissingBoundingBox(line, rd.line_number)), rd, st)
    ELSE
        LET box == IF rd.current.some THEN rd.current.value ELSE rd.default.value
            width == box.width
            height == box.height
            taken == IF height < Len(st) THEN height ELSE Len(st)
            line_number == rd.line_number + height
            rows == DecodeRows(st, width, taken, 0, {})
        IN  IF ~rows.ok THEN
                Out(Err(ParseError(line, line_number)),
                    [rd EXCEPT !.line_number = line_number, !.current = None],
                    SubSeq(st, rows.consumed + 1, Len(st)))
            ELSE
                Out(Ok(BitmapEntry([width |-> width, height |-> height,
                                    bits |-> rows.bits])),
                    [rd EXCEPT !.line_number = line_number, !.current = None],
                    SubSeq(st, taken + 1, Len(st)))

\* a BITMAP arm that leaves the character's bounding box in place
EntryBitmapKeeps(line, rd, st) ==
    IF ~rd.current.some /\ ~rd.default.some
    THEN Out(Err(MissingBoundingBox(line, rd.line_number)), rd, st)
    ELSE
        LET box == IF rd.current.some THEN rd.current.value ELSE rd.default.value
            width == box.width
            height == box.height
            taken == IF height < Len(st) THEN height ELSE Len(st)
            line_number == rd.line_number + height
            rows == DecodeRows(st, width, taken, 0, {})
        IN  IF ~rows.ok THEN
                Out(Err(ParseError(line, line_number)),
                    [rd EXCEPT !.line_number = line_number],
                    SubSeq(st, rows.consumed + 1, Len(st)))
            ELSE
                Out(Ok(BitmapEntry([width |-> width, height |-> height,
                                    bits |-> rows.bits])),
                    [rd EXCEPT !.line_number = line_number],
                    SubSeq(st, taken + 1, Len(st)))

\* the BITMAP arm, rd and st being the Reader and the stream after the BITMAP
\* line.  The rows are taken lazily: a row that is no hexadecimal u64 ends the
\* call with the rows after it still in the stream and line_number already
\* advanced by height; a stream that ends early gives a bitmap of fewer rows.
EntryBitmap(line, rd, st) ==
    IF ~rd.current.some /\ ~rd.default.some
    THEN Out(Err(MissingBoundingBox(line, rd.line_number)), rd, st)
    ELSE
        LET box == IF rd.current.some THEN rd.current.value ELSE rd.default.value
            width == box.width
            height == box.height
            taken == IF height < Len(st) THEN height ELSE Len(st)
            line_number == rd.line_number + height
            rows == DecodeRows(st, width, taken, 0, {})
        IN  IF ~rows.ok THEN
                Out(Err(ParseError(line, line_number)),
                    [rd EXCEPT !.line_number = line_number],
                    SubSeq(st, rows.consumed + 1, Len(st)))
            ELSE
                Out(Ok(BitmapEntry([width |-> width, height |-> height,
                                    bits |-> rows.bits])),
                    [rd EXCEPT !.line_number = line_number, !.current = None],
                    SubSeq(st, taken + 1, Len(st)))

\* the match on the identifier, rd and st being the Reader and the stream
\* after the line
Dispatch(id, rest, line, rd, st) ==
    LET n == rd.line_number
        key == IF Len(id) = 1 THEN id[1] ELSE ""
        text == Text(id, rest, n)
        count == Count(id, rest, line, n)
        pair == Numeric(id, rest, <<U32, U32>>, line, n)
        size == Numeric(id, rest, <<U16, U16, U16>>, line, n)
        box == Numeric(id, rest, BoxTypes, line, n)
    IN  CASE key = "COMMENT" -> Out(EntryComment(rest), rd, st)
          [] key = "STARTFONT" -> Out(EntryStartFont(rest, line, n), rd, st)
          [] key = "FONT" -> Out(Then(text, FontName(text.value)), rd, st)
          [] key = "SIZE" ->
                Out(Then(size, Size(size.value[1], size.value[2], size.value[3])), rd, st)
          [] key = "FONTBOUNDINGBOX" ->
                IF IsOk(box)
                THEN Out(Ok(FontBoundingBox(MakeBox(box.value))),
                         [rd EXCEPT !.default = Some(MakeBox(box.value))], st)
                ELSE Out(box, rd, st)
          [] key = "CONTENTVERSION" -> Out(Then(text, ContentVersion(text.value)), rd, st)
          [] key = "CHARS" -> Out(Then(count, Chars(count.value)), rd, st)
          [] key = "STARTCHAR" -> Out(Then(text, StartChar(text.value)), rd, st)
          [] key = "ENCODING" -> Out(EntryEncoding(id, rest, line, n), rd, st)
          [] key = "METRICSSET" -> Out(EntryDirection(id, rest, n), rd, st)
          [] key \in PairIds ->
                Out(Then(pair, Pair(PairTags[key], pair.value[1], pair.value[2])), rd, st)
          [] key = "BBX" ->
                IF IsOk(box)
                THEN Out(Ok(BoundingBoxEntry(MakeBox(box.value))),
                         [rd EXCEPT !.current = Some(MakeBox(box.value))], st)
                ELSE Out(box, rd, st)
          [] key = "BITMAP" -> EntryBitmap(line, rd, st)
          [] key = "ENDCHAR" -> Out(Ok(EndChar), rd, st)
          [] key = "ENDFONT" -> Out(Ok(EndFont), rd, st)
          [] key = "STARTPROPERTIES" ->
                Out(Then(count, StartProperties(count.value)), rd, st)
          [] key = "ENDPROPERTIES" -> Out(Ok(EndProperties), rd, st)
          [] OTHER -> Out(EntryOther(id, rest), rd, st)

\* an entry() that puts the line back when its codepoint is no char
ReaderEntryRewinds(rd, st) ==
    LET k == LeadingEmpty(st)
    IN  IF k = Len(st)
        THEN Out(Err(End), [rd EXCEPT !.line_number = @ + k], <<>>)
        ELSE
            LET line == st[k + 1]
                after == SubSeq(st, k + 2, Len(st))
                counted == [rd EXCEPT !.line_number = @ + k + 1]
                n == Find(line, Space)
                id == IF n > 0 THEN SubSeq(line, 1, n - 1) ELSE Trim(line)
                rest == IF n > 0 THEN Some(Trim(SubSeq(line, n, Len(line)))) ELSE None
                out == Dispatch(id, rest, line, counted, after)
            IN  IF IsErr(out.ret) /\ out.ret.error.kind = "InvalidCodepoint"
                THEN Out(out.ret, rd, st)
                ELSE out

\* Reader::entry: the empty lines at the head of the stream are consumed and
\* counted, then the first other line is split at its first space
ReaderEntry(rd, st) ==
    LET k == LeadingEmpty(st)
    IN  IF k = Len(st)
        THEN Out(Err(End), [rd EXCEPT !.line_number = @ + k], <<>>)
        ELSE
            LET line == st[k + 1]
                after == SubSeq(st, k + 2, Len(st))
                counted == [rd EXCEPT !.line_number = @ + k + 1]
                n == Find(line, Space)
                id == IF n > 0 THEN SubSeq(line, 1, n - 1) ELSE Trim(line)
                rest == IF n > 0 THEN Some(Trim(SubSeq(line, n, Len(line)))) ELSE None
            IN  Dispatch(id, rest, line, counted, after)

---------------------------------------------------------------------------
(* Writer *)

\* the pieces of a line, separated by single spaces
RECURSIVE Join(_)
Join(pieces) ==
    IF Len(pieces) = 1 THEN pieces[1]
    ELSE pieces[1] \o <<Space>> \o Join(Tail(pieces))

Quoted(string) == <<Quote>> \o Double(string) \o <<Quote>>

BoxFields(bbx) ==
    <<FormatInt(bbx.width), FormatInt(bbx.height), FormatInt(bbx.x), FormatInt(bbx.y)>>

PairIdOf(tag) == CHOOSE id \in PairIds : PairTags[id] = tag

\* a padding shift of width mod 8
WriterPadLow(width) == width % 8

\* the shift that pads a row to whole bytes: (-(width as i32)).rem_euclid(8)
WriterPad(width) == (0 - width) % 8

\* a padding to one digit for each byte
HexWidthBytes(width) == (width + 7) \div 8

\* the number of digits a row is padded to: (width + 7) >> 3 << 1
HexWidth(width) == ((width + 7) \div 8) * 2

\* the inner loop of the Bitmap arm from column x on: value <<= 1;
\* value |= map.get(x, y)
RECURSIVE Accumulate(_, _, _, _)
Accumulate(m, y, x, value) ==
    IF x >= m.width THEN value
    ELSE LET next == OrBit(Shl(value, 1), IF BitmapGet(m, x, y).value THEN 1 ELSE 0)
         \* (both branches pass the same value; the comparison has it computed
         \* before the next column is visited)
         IN  IF next = Zero64 THEN Accumulate(m, y, x + 1, Zero64)
             ELSE Accumulate(m, y, x + 1, next)

\* the text of row y
WriterRow(m, y) ==
    FormatHex(Shl(Accumulate(m, y, 0, Zero64), WriterPad(m.width)), HexWidth(m.width))

\* the Bitmap arm: the BITMAP line, then one line for each row
WriterBitmap(m) == <<(<<"BITMAP">>)>> \o [j \in 1..m.height |-> WriterRow(m, j - 1)]

\* an Unknown arm that writes the identifier as a line
WriterUnknownEcho(record) == Ok(<<record.id>>)

\* the Unknown arm: unreachable!()
WriterUnknown(record) == Panic

\* Writer::entry on a sink that accepts every write: the lines written, or
\* the panic of unreachable!() on an Unknown record
WriterEntry(record) ==
    LET t == record.tag
    IN  CASE t = "StartFont" -> Ok(<<Join(<<(<<"STARTFONT">>), record.string>>)>>)
          [] t = "Comment" -> Ok(<<Join(<<(<<"COMMENT">>), Quoted(record.string)>>)>>)
          [] t = "ContentVersion" -> Ok(<<Join(<<(<<"CONTENTVERSION">>), record.string>>)>>)
          [] t = "Font" -> Ok(<<Join(<<(<<"FONT">>), record.string>>)>>)
          [] t = "Size" ->
                Ok(<<Join(<<(<<"SIZE">>), FormatInt(record.pt), FormatInt(record.x),
                            FormatInt(record.y)>>)>>)
          [] t = "Chars" -> Ok(<<Join(<<(<<"CHARS">>), FormatInt(record.n)>>)>>)
          [] t = "FontBoundingBox" ->
                Ok(<<Join(<<(<<"FONTBOUNDINGBOX">>)>> \o BoxFields(record.bbx))>>)
          [] t = "EndFont" -> Ok(<<(<<"ENDFONT">>)>>)
          [] t = "StartProperties" ->
                Ok(<<Join(<<(<<"STARTPROPERTIES">>), FormatInt(record.n)>>)>>)
          [] t = "Property" ->
                IF record.value.tag = "String"
                THEN Ok(<<Join(<<record.name, Quoted(record.value.string)>>)>>)
                ELSE Ok(<<Join(<<record.name, FormatInt(record.value.int)>>)>>)
          [] t = "EndProperties" -> Ok(<<(<<"ENDPROPERTIES">>)>>)
          [] t = "StartChar" -> Ok(<<Join(<<(<<"STARTCHAR">>), record.string>>)>>)
          [] t = "Encoding" -> Ok(<<Join(<<(<<"ENCODING">>), FormatInt(record.codepoint)>>)>>)
          [] t = "Direction" ->
                Ok(<<Join(<<(<<"METRICSSET">>),
                            CASE record.direction = "Default" -> <<"0">>
                              [] record.direction = "Alternate" -> <<"1">>
                              [] record.direction = "Both" -> <<"2">>  >>)>>)
          [] t \in {PairTags[id] : id \in PairIds} ->
                Ok(<<Join(<<(<<PairIdOf(t)>>), FormatInt(record.x), FormatInt(record.y)>>)>>)
          [] t = "BoundingBox" -> Ok(<<Join(<<(<<"BBX">>)>> \o BoxFields(record.bbx))>>)
          [] t = "Bitmap" -> Ok(WriterBitmap(record.map))
          [] t = "EndChar" -> Ok(<<(<<"ENDCHAR">>)>>)
          [] t = "Unknown" -> WriterUnknown(record)

---------------------------------------------------------------------------
(* values of the variables a scenario does not use *)

NoEntry == [tag |-> "None"]

Idle == [tag |-> "Idle"]

---------------------------------------------------------------------------
(* Font and Glyph *)

\* an insertion that keeps the value the key already has
InsertKeep(f, key, value) == f @@ (key :> value)

\* f with value stored under key
Insert(f, key, value) == (key :> value) @@ f

\* the field of Font and of Glyph each width or vector record sets
PairField ==
    [ScalableWidth |-> "scalable_width", DeviceWidth |-> "device_width",
     AlternateScalableWidth |-> "alternate_scalable_width",
     AlternateDeviceWidth |-> "alternate_device_width", Vector |-> "vector"]

\* the order write() visits the width and vector fields in
PairOrder ==
    <<"ScalableWidth", "DeviceWidth", "AlternateScalableWidth",
      "AlternateDeviceWidth", "Vector">>

\* Font::default()
FontDefault ==
    [format |-> <<"2", ".", "2">>, name |-> None, version |-> None, size |-> None,
     bounds |-> None, direction |-> "Default", scalable_width |-> None,
     device_width |-> None, alternate_scalable_width |-> None,
     alternate_device_width |-> None, vector |-> None,
     properties |-> <<>>, glyphs |-> <<>>]

\* Font::validate
FontValidate(f) ==
    IF ~f.name.some THEN FALSE
    ELSE IF ~f.size.some THEN FALSE
    ELSE IF ~f.bounds.some THEN FALSE
    ELSE TRUE

\* Glyph::default(): a glyph with no bounding box and no bitmap yet
GlyphDefault ==
    [name |-> <<>>, codepoint |-> 0, direction |-> "Default",
     scalable_width |-> None, device_width |-> None,
     alternate_scalable_width |-> None, alternate_device_width |-> None,
     vector |-> None, bounds |-> None, map |-> None]

\* Glyph::validate: the bounding box and the bitmap are present
GlyphValidate(g) == g.bounds.some /\ g.map.some

---------------------------------------------------------------------------
(* read(): one turn of its loop *)

\* the state of read() at the end of a turn: its locals l, whether it has
\* returned and what, and the kind of record it stored at font top level
Continue(l) == [l |-> l, done |-> FALSE, ret |-> Idle, stored |-> {}]

Return(l, r) == [l |-> l, done |-> TRUE, ret |-> r, stored |-> {}]

Store(l, kind) == [l |-> l, done |-> FALSE, ret |-> Idle, stored |-> {kind}]

\* an end of font that returns the font without validating it
AtEndFontUnchecked(l) ==
    IF l.in_char THEN Return(l, Err(MalformedChar))
    ELSE IF l.in_props THEN Return(l, Err(MalformedProperties))
    ELSE Return(l, Ok(l.font))

\* an end of font that does not look at the open blocks
AtEndFontBlind(l) ==
    IF ~FontValidate(l.font) THEN Return(l, Err(MalformedFont))
    ELSE Return(l, Ok(l.font))

\* if let Entry::EndFont = entry
AtEndFont(l) ==
    IF l.in_char THEN Return(l, Err(MalformedChar))
    ELSE IF l.in_props THEN Return(l, Err(MalformedProperties))
    ELSE IF ~FontValidate(l.font) THEN Return(l, Err(MalformedFont))
    ELSE Return(l, Ok(l.font))

\* a STARTPROPERTIES arm that does not look at the character block
AtStartPropertiesAnywhere(l) == Continue([l EXCEPT !.in_props = TRUE])

\* if let Entry::StartProperties(..) = entry
AtStartProperties(l) ==
    IF l.in_char THEN Return(l, Err(MalformedChar))
    ELSE Continue([l EXCEPT !.in_props = TRUE])

\* if in_props
InProps(l, e) ==
    IF e.tag = "EndProperties" THEN Continue([l EXCEPT !.in_props = FALSE])
    ELSE IF e.tag = "Property"
    THEN Continue([l EXCEPT !.font.properties = Insert(@, e.name, e.value)])
    ELSE Return(l, Err(MalformedProperties))

\* if let Entry::StartChar(name) = entry
AtStartChar(l, e) ==
    IF l.in_props THEN Return(l, Err(MalformedProperties))
    ELSE Continue([l EXCEPT !.glyph.name = e.string, !.in_char = TRUE])

\* an end of character that stores the glyph as it is
AtEndCharUnchecked(l) ==
    IF l.skip_current_char
    THEN Continue([l EXCEPT !.skip_current_char = FALSE, !.in_char = FALSE,
                            !.glyph = GlyphDefault])
    ELSE Continue([l EXCEPT !.font.glyphs = Insert(@, l.glyph.codepoint, l.glyph),
                            !.in_char = FALSE, !.glyph = GlyphDefault])

\* an end of character that leaves the skip mark set
AtEndCharSticky(l) ==
    IF l.skip_current_char
    THEN Continue([l EXCEPT !.in_char = FALSE, !.glyph = GlyphDefault])
    ELSE IF ~GlyphValidate(l.glyph) THEN Return(l, Err(MalformedChar))
    ELSE Continue([l EXCEPT !.font.glyphs = Insert(@, l.glyph.codepoint, l.glyph),
                            !.in_char = FALSE, !.glyph = GlyphDefault])

\* if let Entry::EndChar = entry, inside a character
AtEndChar(l) ==
    IF l.skip_current_char
    THEN Continue([l EXCEPT !.skip_current_char = FALSE, !.in_char = FALSE,
                            !.glyph = GlyphDefault])
    ELSE IF ~GlyphValidate(l.glyph) THEN Return(l, Err(MalformedChar))
    ELSE Continue([l EXCEPT !.font.glyphs = Insert(@, l.glyph.codepoint, l.glyph),
                            !.in_char = FALSE, !.glyph = GlyphDefault])

\* a character block that takes a METRICSSET record as the glyph's direction
InCharDirected(l, e) ==
    IF e.tag = "EndChar" THEN AtEndChar(l)
    ELSE CASE e.tag = "Encoding" -> Continue([l EXCEPT !.glyph.codepoint = e.codepoint])
           [] e.tag = "Direction" ->
                Continue([l EXCEPT !.glyph.direction = e.direction])
           [] e.tag \in DOMAIN PairField ->
                Continue([l EXCEPT !.glyph[PairField[e.tag]] = Some(<<e.x, e.y>>)])
           [] e.tag = "BoundingBox" -> Continue([l EXCEPT !.glyph.bounds = Some(e.bbx)])
           [] e.tag = "Bitmap" -> Continue([l EXCEPT !.glyph.map = Some(e.map)])
           [] OTHER -> Return(l, Err(MalformedChar))

\* if in_char
InChar(l, e) ==
    IF e.tag = "EndChar" THEN AtEndChar(l)
    ELSE CASE e.tag = "Encoding" -> Continue([l EXCEPT !.glyph.codepoint = e.codepoint])
           [] e.tag \in DOMAIN PairField ->
                Continue([l EXCEPT !.glyph[PairField[e.tag]] = Some(<<e.x, e.y>>)])
           [] e.tag = "BoundingBox" -> Continue([l EXCEPT !.glyph.bounds = Some(e.bbx)])
           [] e.tag = "Bitmap" -> Continue([l EXCEPT !.glyph.map = Some(e.map)])
           [] OTHER -> Return(l, Err(MalformedChar))

\* the match on the entry at font top level
AtTop(l, e) ==
    CASE e.tag \in {"Comment", "Chars"} -> Continue(l)
      [] e.tag = "ContentVersion" ->
            Store([l EXCEPT !.font.version = Some(e.string)], e.tag)
      [] e.tag = "Font" -> Store([l EXCEPT !.font.name = Some(e.string)], e.tag)
      [] e.tag = "Size" ->
            Store([l EXCEPT !.font.size = Some([pt |-> e.pt, x |-> e.x, y |-> e.y])],
                  e.tag)
      [] e.tag = "FontBoundingBox" ->
            Store([l EXCEPT !.font.bounds = Some(e.bbx)], e.tag)
      [] e.tag \in DOMAIN PairField ->
            Store([l EXCEPT !.font[PairField[e.tag]] = Some(<<e.x, e.y>>)], e.tag)
      [] OTHER -> Return(l, Err(MalformedFont))

\* if in_font
InFont(l, e) ==
    IF e.tag = "EndFont" THEN AtEndFont(l)
    ELSE IF e.tag = "StartProperties" THEN AtStartProperties(l)
    ELSE IF l.in_props THEN InProps(l, e)
    ELSE IF e.tag = "StartChar" THEN AtStartChar(l, e)
    ELSE IF l.in_char THEN InChar(l, e)
    ELSE AtTop(l, e)

\* the match on the entry before STARTFONT
OutOfFont(l, e) ==
    CASE e.tag = "Comment" -> Continue(l)
      [] e.tag = "StartFont" ->
            Continue([l EXCEPT !.font.format = e.string, !.in_font = TRUE])
      [] OTHER -> Return(l, Err(MalformedFont))

\* a turn that takes the end of the stream inside the font for the end of the
\* font
AssembleSwallows(l, r) ==
    IF IsPanic(r) THEN Return(l, r)
    ELSE IF IsErr(r) THEN
        IF r.error.kind = "InvalidCodepoint"
        THEN Continue([l EXCEPT !.skip_current_char = TRUE])
        ELSE IF r.error.kind = "End" /\ l.in_font THEN Return(l, Ok(l.font))
        ELSE Return(l, r)
    ELSE IF l.in_font THEN InFont(l, r.value)
    ELSE OutOfFont(l, r.value)

\* one turn of the loop of read() on the outcome r of reader.entry(): an
\* InvalidCodepoint error marks the current character and the loop goes on,
\* every other error is returned, a panic of entry() unwinds read()
Assemble(l, r) ==
    IF IsPanic(r) THEN Return(l, r)
    ELSE IF IsErr(r) THEN
        IF r.error.kind = "InvalidCodepoint"
        THEN Continue([l EXCEPT !.skip_current_char = TRUE])
        ELSE Return(l, r)
    ELSE IF l.in_font THEN InFont(l, r.value)
    ELSE OutOfFont(l, r.value)

\* the locals of read() before its loop
LocalsNew ==
    [font |-> FontDefault, glyph |-> GlyphDefault, in_font |-> FALSE,
     in_props |-> FALSE, in_char |-> FALSE, skip_current_char |-> FALSE]

\* read() from the locals l, the Reader rd and the stream st on: the turns
\* are taken until one of them returns
RECURSIVE ReadFrom(_, _, _)
ReadFrom(l, rd, st) ==
    LET out == ReaderEntry(rd, st)
        turn == Assemble(l, out.ret)
    IN  IF turn.done THEN turn.ret ELSE ReadFrom(turn.l, out.reader, out.stream)

---------------------------------------------------------------------------
(* write() *)

\* the lines Writer::entry writes for the records, in order
RECURSIVE Lines(_)
Lines(records) ==
    IF Len(records) = 0 THEN <<>>
    ELSE WriterEntry(Head(records)).value \o Lines(Tail(records))

\* the width and vector records first, the Direction record after them
MetricsPairsFirst(o) ==
    SelectSeq([i \in 1..Len(PairOrder) |->
                    IF o[PairField[PairOrder[i]]].some
                    THEN Pair(PairOrder[i], o[PairField[PairOrder[i]]].value[1],
                              o[PairField[PairOrder[i]]].value[2])
                    ELSE [tag |-> "None"]],
              LAMBDA e : e.tag # "None")
    \o (IF o.direction # "Default" THEN <<DirectionEntry(o.direction)>> ELSE <<>>)

\* the optional Direction record, then the width and vector records of the
\* fields of o (a Font or a Glyph) that are present
Metrics(o) ==
    (IF o.direction # "Default" THEN <<DirectionEntry(o.direction)>> ELSE <<>>)
    \o SelectSeq([i \in 1..Len(PairOrder) |->
                    IF o[PairField[PairOrder[i]]].some
                    THEN Pair(PairOrder[i], o[PairField[PairOrder[i]]].value[1],
                              o[PairField[PairOrder[i]]].value[2])
                    ELSE [tag |-> "None"]],
                 LAMBDA e : e.tag # "None")

\* a property block that is written for an empty table too
PropertyRecordsAlways(f, names) ==
    <<StartProperties(Cardinality(DOMAIN f.properties))>>
    \o [i \in 1..Len(names) |-> PropertyEntry(names[i], f.properties[names[i]])]
    \o <<EndProperties>>

\* the property block, the properties visited in the order names
PropertyRecords(f, names) ==
    IF DOMAIN f.properties = {} THEN <<>>
    ELSE <<StartProperties(Cardinality(DOMAIN f.properties))>>
         \o [i \in 1..Len(names) |-> PropertyEntry(names[i], f.properties[names[i]])]
         \o <<EndProperties>>

\* the records of one glyph
GlyphRecords(codepoint, g) ==
    <<StartChar(g.name), Encoding(codepoint)>> \o Metrics(g)
    \o <<BoundingBoxEntry(g.bounds.value), BitmapEntry(g.map.value), EndChar>>

\* the records of the glyphs, visited in the order codepoints
RECURSIVE GlyphsRecords(_, _)
GlyphsRecords(f, codepoints) ==
    IF Len(codepoints) = 0 THEN <<>>
    ELSE GlyphRecords(Head(codepoints), f.glyphs[Head(codepoints)])
         \o GlyphsRecords(f, Tail(codepoints))

\* the records write() hands to Writer::entry for a valid font
FontRecords(f, names, codepoints) ==
    <<StartFont(f.format), FontName(f.name.value),
      Size(f.size.value.pt, f.size.value.x, f.size.value.y)>>
    \o (IF f.version.some THEN <<ContentVersion(f.version.value)>> ELSE <<>>)
    \o <<FontBoundingBox(f.bounds.value)>>
    \o Metrics(f)
    \o PropertyRecords(f, names)
    \o <<Chars(Cardinality(DOMAIN f.glyphs))>>
    \o GlyphsRecords(f, codepoints)
    \o <<EndFont>>

\* a write() that checks the glyphs before it checks the font
WriteFontGlyphsFirst(f, names, codepoints) ==
    IF \E c \in DOMAIN f.glyphs : ~GlyphValidate(f.glyphs[c])
    THEN [ret |-> Err(MalformedChar), lines |-> <<>>]
    ELSE IF ~FontValidate(f) THEN [ret |-> Err(MalformedFont), lines |-> <<>>]
    ELSE [ret |-> Ok("unit"), lines |-> Lines(FontRecords(f, names, codepoints))]

\* write(stream, font) on a sink that accepts every write, the hash maps
\* iterated in the orders names and codepoints: the outcome and the lines
\* written
WriteFont(f, names, codepoints) ==
    IF ~FontValidate(f) THEN [ret |-> Err(MalformedFont), lines |-> <<>>]
    ELSE IF \E c \in DOMAIN f.glyphs : ~GlyphValidate(f.glyphs[c])
    THEN [ret |-> Err(MalformedChar), lines |-> <<>>]
    ELSE [ret |-> Ok("unit"), lines |-> Lines(FontRecords(f, names, codepoints))]

\* the orders a hash map of the keys S can be iterated in
Orders(S) == {o \in [1..Cardinality(S) -> S] : \A k \in S : \E i \in DOMAIN o : o[i] = k}

---------------------------------------------------------------------------
(* the locals of read() as it enters its loop *)

AssemblyInit ==
    /\ font = FontDefault
    /\ glyph = GlyphDefault
    /\ in_font = FALSE
    /\ in_props = FALSE
    /\ in_char = FALSE
    /\ skip_current_char = FALSE
    /\ accepted = {}
    /\ outcomes = <<>>

---------------------------------------------------------------------------
(* SpecBitmap: calls of Bitmap::get and Bitmap::set on a Bitmap *)

\* bitmaps of this scenario are at most MaxCoord wide and high
MaxCoord == 2

BitmapInit ==
    /\ \E w \in 0..MaxCoord, h \in 0..MaxCoord : map = BitmapNew(w, h)
    /\ entry = NoEntry
    /\ input = <<>>
    /\ sink = <<>>
    /\ stream = <<>>
    /\ reader = ReaderNew
    /\ ret = Idle
    /\ pc = "bitmap"
    /\ AssemblyInit

\* map.get(x, y)
Get(x, y) ==
    /\ pc = "bitmap"
    /\ ret' = [call |-> "get", x |-> x, y |-> y, out |-> BitmapGet(map, x, y),
               before |-> map]
    /\ UNCHANGED <<map, entry, input, sink, stream, reader, pc, assembly>>

\* map.set(x, y, value)
Set(x, y, value) ==
    /\ pc = "bitmap"
    /\ map' = BitmapSet(map, x, y, value).map
    /\ ret' = [call |-> "set", x |-> x, y |-> y,
               out |-> [tag |-> BitmapSet(map, x, y, value).tag], before |-> map]
    /\ UNCHANGED <<entry, input, sink, stream, reader, pc, assembly>>

BitmapNext ==
    \E x \in 0..(MaxCoord + 1), y \in 0..(MaxCoord + 1) :
        \/ Get(x, y)
        \/ \E value \in BOOLEAN : Set(x, y, value)

SpecBitmap == BitmapInit /\ [][BitmapNext]_vars

\* the last call had a coordinate outside the bitmap it was made on
OutOfBounds == ret # Idle /\ (ret.x >= ret.before.width \/ ret.y >= ret.before.height)

\* C4: a Bitmap::get or Bitmap::set with x >= width or y >= height ends in a
\* panic: it returns no value and the bitmap is the one before the call, no
\* pixel changed
OutOfBoundsPanics ==
    OutOfBounds => /\ ret.out = [tag |-> "Panic"]
                   /\ map = ret.before

\* a set of a column past the width, on a bitmap that has a pixel set
OutOfBoundsSetReached ==
    /\ OutOfBounds
    /\ ret.call = "set"
    /\ ret.x >= ret.before.width
    /\ ret.y < ret.before.height
    /\ ret.before.bits # {}
    /\ ret.out.tag = "Panic"

---------------------------------------------------------------------------
(* SpecCodec: a Bitmap record is written by Writer::entry and the text is   *)
(* parsed by Reader::entry; or Reader::entry parses a given BITMAP block.   *)

\* the bitmaps written have every width the u64 row value holds and at most
\* MaxHeight rows
MaxHeight == 2

\* the given BITMAP blocks have at most MaxRows rows of at most MaxRowLen
\* characters, under a bounding box of one of the widths RawWidths
MaxRows == 1

MaxRowLen == 2

RawWidths == {0, 6, 9}

RowAlphabet == {"0", "7", "f", "G"}

\* the pixel assignments written over the positions P: none set, all set, one
\* set, one clear
Patterns(P) == {{}, P} \cup {{p} : p \in P} \cup {P \ {p} : p \in P}

\* the texts over A of at most n characters
RECURSIVE Texts(_, _)
Texts(A, n) ==
    IF n = 0 THEN {<<>>}
    ELSE LET T == Texts(A, n - 1) IN T \cup {Append(t, c) : t \in T, c \in A}

\* the sequences over S of at most n elements
RECURSIVE Seqs(_, _)
Seqs(S, n) ==
    IF n = 0 THEN {<<>>}
    ELSE LET T == Seqs(S, n - 1) IN T \cup {Append(t, e) : t \in T, e \in S}

\* the Reader after it has parsed "BBX width height 0 0" as its first line
AfterBBX(width, height) ==
    [line_number |-> 1, default |-> None,
     current |-> Some(BoundingBox(width, height, 0, 0))]

CodecInit ==
    /\ sink = <<>>
    /\ ret = Idle
    /\ AssemblyInit
    /\ \/ \E w \in 0..MaxWidth, h \in 0..MaxHeight :
            \E b \in Patterns(0..(w * h - 1)) :
                /\ map = [width |-> w, height |-> h, bits |-> b]
                /\ entry = BitmapEntry(map)
                /\ input = <<>>
                /\ stream = <<>>
                /\ reader = AfterBBX(w, h)
                /\ pc = "write"
       \/ \E w \in RawWidths, h \in 0..(MaxRows + 1) :
            \E rows \in Seqs(Texts(RowAlphabet, MaxRowLen), MaxRows) :
                /\ map = BitmapNew(0, 0)
                /\ entry = NoEntry
                /\ input = <<(<<"BITMAP">>)>> \o rows
                /\ stream = input
                /\ reader = AfterBBX(w, h)
                /\ pc = "read"

\* writer.entry(&entry); the text written is what the Reader is opened on
WriteEntry ==
    /\ pc = "write"
    /\ \E r \in {WriterEntry(entry)} :
           /\ sink' = IF IsOk(r) THEN r.value ELSE <<>>
           /\ input' = sink'
           /\ stream' = sink'
           /\ ret' = IF IsOk(r) THEN Ok("unit") ELSE r
           /\ pc' = IF IsOk(r) THEN "read" ELSE "done"
    /\ UNCHANGED <<map, entry, reader, assembly>>

\* reader.entry()
ReadEntry ==
    /\ pc = "read"
    /\ \E out \in {ReaderEntry(reader, stream)} :
           /\ ret' = out.ret
           /\ reader' = out.reader
           /\ stream' = out.stream
    /\ pc' = "done"
    /\ UNCHANGED <<map, entry, input, sink, assembly>>

CodecNext == WriteEntry \/ ReadEntry

SpecCodec == CodecInit /\ [][CodecNext]_vars

\* a Bitmap record has been written and its text parsed
Recoded == pc = "done" /\ entry.tag = "Bitmap"

\* C1: the text Writer::entry writes for a Bitmap record of a width 0..64,
\* parsed by Reader::entry under a bounding box of the same width and height,
\* gives a Bitmap record equal to the one written, and no line is left over
BitmapRoundTrip == Recoded => ret = Ok(entry) /\ stream = <<>>

\* a bitmap of the greatest width, neither empty nor full, has made the round
\* trip
WideRoundTripReached ==
    /\ Recoded
    /\ map.width = MaxWidth
    /\ map.height >= 2
    /\ Cardinality(map.bits) = 1
    /\ ret = Ok(entry)

\* a BITMAP block has been decoded into a bitmap
Decoded == pc = "done" /\ IsOk(ret) /\ ret.value.tag = "Bitmap"

\* row y of the decoded block as an integer, shifted right by (8 - w mod 8) mod 8
ShiftedRow(w, y) == Shr(ParseHex(input[y + 2]).value, (8 - (w % 8)) % 8)

\* C2: in the bitmap decoded at a width w of 1..64, pixel (x, y) is set exactly
\* when bit w - 1 - x of the shifted value of row y is 1; the row 70 at width 6
\* sets the columns 1, 2 and 3
DecodeBitOrder ==
    Decoded =>
        LET m == ret.value.map
            w == m.width
        IN  /\ \A y \in 0..(m.height - 1) :
                    y + 2 <= Len(input) =>
                        \E row \in {ShiftedRow(w, y)} :
                            \A x \in 0..(w - 1) :
                                ((y * w + x) \in m.bits) <=> Bit(row, w - 1 - x)
            /\ (w = 6 /\ m.height = 1 /\ input = <<(<<"BITMAP">>), <<"7", "0">>>>)
                    => m.bits = {1, 2, 3}

\* the row 70 has been decoded at width 6
Row70Reached ==
    /\ Decoded
    /\ entry = NoEntry
    /\ input = <<(<<"BITMAP">>), <<"7", "0">>>>
    /\ ret.value.map.width = 6
    /\ ret.value.map.height = 1
    /\ ret.value.map.bits = {1, 2, 3}

\* a Bitmap record has just been written
Encoded == pc = "read" /\ entry.tag = "Bitmap"

\* the row line is uppercase hexadecimal
IsUpperHex(row) == \A i \in 1..Len(row) : \E k \in 1..16 : HexUpper[k] = row[i]

\* the value of the row line is the pixels of row y, the first column the most
\* significant, shifted left by (-width) mod 8
IsRowValue(row, y) ==
    LET w == map.width
        pad == (8 - (w % 8)) % 8
    IN  \E value \in {ParseHex(row).value} :
            \A b \in 0..(U64Bits - 1) :
                Bit(value, b) <=>
                    /\ b >= pad
                    /\ b - pad < w
                    /\ (y * w + (w - 1 - (b - pad))) \in map.bits

\* C3 as stated: every row line written for a bitmap of a width 0..64 is
\* uppercase hexadecimal of exactly 2 * ceil(width / 8) digits, its value the
\* pixels accumulated most significant bit first and shifted by (-width) mod 8
RowFormatExact ==
    Encoded =>
        /\ Len(sink) = map.height + 1
        /\ \A j \in 2..Len(sink) :
                /\ IsUpperHex(sink[j])
                /\ Len(sink[j]) = 2 * ((map.width + 7) \div 8)
                /\ IsRowValue(sink[j], j - 2)

\* C3: every row line written for a bitmap of a width 1..64 is uppercase
\* hexadecimal of exactly 2 * ceil(width / 8) digits, and for width 0 it is the
\* one digit 0; its value is the pixels accumulated most significant bit first
\* and shifted left by (-width) mod 8
RowFormat ==
    Encoded =>
        /\ Len(sink) = map.height + 1
        /\ \A j \in 2..Len(sink) :
                /\ IsUpperHex(sink[j])
                /\ Len(sink[j]) = IF map.width = 0 THEN 1
                                  ELSE 2 * ((map.width + 7) \div 8)
                /\ map.width = 0 => sink[j] = <<"0">>
                /\ IsRowValue(sink[j], j - 2)

\* a row of a bitmap 12 wide has been written with a pixel set in it
PaddedRowReached ==
    /\ Encoded
    /\ map.width = 12
    /\ map.height >= 1
    /\ 0 \in map.bits
    /\ Len(sink[2]) = 4
    /\ sink[2] # <<"0", "0", "0", "0">>


---------------------------------------------------------------------------
(* SpecProperty: Property::parse is applied to a text.                     *)

\* the texts parsed have at most MaxPropertyLen characters
MaxPropertyLen == 4

PropertyAlphabet == {Quote, "4", "1", "-", "H", Space}

PropertyInit ==
    /\ map = BitmapNew(0, 0)
    /\ entry = NoEntry
    /\ \E s \in Texts(PropertyAlphabet, MaxPropertyLen) : input = <<s>>
    /\ sink = <<>>
    /\ stream = <<>>
    /\ reader = ReaderNew
    /\ ret = Idle
    /\ pc = "property"
    /\ AssemblyInit

\* Property::parse(&input)
ParseProperty ==
    /\ pc = "property"
    /\ ret' = PropertyParse(input[1])
    /\ pc' = "parsed"
    /\ UNCHANGED <<map, entry, input, sink, stream, reader, assembly>>

PropertyNext == ParseProperty

SpecProperty == PropertyInit /\ [][PropertyNext]_vars

\* C5 as stated: Property::parse(s) is, for s beginning with a double quote,
\* the string s without its outer quotes and with every doubled quote replaced
\* by one; otherwise Integer(n) when s is a signed 64-bit decimal n; otherwise
\* the string s unchanged.  Quoted 41 gives String 41, bare 41 gives Integer 41.
PropertyParseRules ==
    pc = "parsed" =>
        LET s == input[1]
        IN  /\ IF Len(s) > 0 /\ s[1] = Quote
               THEN ret = Ok(PropertyString(Undouble(SubSeq(s, 2, Len(s) - 1))))
               ELSE IF ParseInt(s, I64).ok
               THEN ret = Ok(PropertyInteger(ParseInt(s, I64).value))
               ELSE ret = Ok(PropertyString(s))
            /\ s = <<Quote, "4", "1", Quote>> => ret = Ok(PropertyString(<<"4", "1">>))
            /\ s = <<"4", "1">> => ret = Ok(PropertyInteger(41))
            /\ s = <<"H", Space, "H">> => ret = Ok(PropertyString(s))

---------------------------------------------------------------------------
(* SpecEntry: a record is written by Writer::entry and the text is parsed  *)
(* by a fresh Reader; or a fresh Reader parses a line and the record is    *)
(* written by Writer::entry.                                               *)

\* the remainders of the lines parsed have at most MaxFields pieces, each
\* one of Words, with one space between two pieces
MaxFields == 4

Words == {<<>>, <<"1">>, <<"-", "2">>, <<"h">>, <<Quote, "h", Quote>>}

\* the texts of the records written
RecordTexts == {<<>>, <<"h">>, <<"h", Space, "h">>, <<Space, "h">>, <<"h", Quote>>}

\* the numbers of the records written
RecordNumbers == {0, 1, 16}

Boxes == {BoundingBox(w, 1, 0, y) : w \in {0, 6}, y \in {0 - 2, 0}}

\* the texts of the comments and of the string properties written: every
\* text of at most MaxQuoteLen characters over QuoteAlphabet
MaxQuoteLen == 3

QuoteAlphabet == {Quote, "h", Space}

QuoteTexts == Texts(QuoteAlphabet, MaxQuoteLen)

\* the records written
Records ==
    {Make[t] : t \in RecordTexts,
               Make \in {[u \in RecordTexts |-> StartFont(u)],
                         [u \in RecordTexts |-> Comment(u)],
                         [u \in RecordTexts |-> ContentVersion(u)],
                         [u \in RecordTexts |-> FontName(u)],
                         [u \in RecordTexts |-> StartChar(u)],
                         [u \in RecordTexts |-> PropertyEntry(<<"H">>, PropertyString(u))]}}
    \cup {Size(a, b, 0) : a \in RecordNumbers, b \in RecordNumbers}
    \cup {Chars(n) : n \in RecordNumbers}
    \cup {StartProperties(n) : n \in RecordNumbers}
    \cup {PropertyEntry(name, PropertyInteger(n)) :
            name \in {<<"H">>, <<"FONT">>}, n \in {0 - 2, 1}}
    \cup {FontBoundingBox(b) : b \in Boxes}
    \cup {BoundingBoxEntry(b) : b \in Boxes}
    \cup {Encoding(c) : c \in {0, 65, CharMax}}
    \cup {DirectionEntry(d) : d \in {"Default", "Alternate", "Both"}}
    \cup {Pair(PairTags[id], a, b) : id \in PairIds, a \in {0, 16}, b \in {1}}
    \cup {BitmapEntry([width |-> 1, height |-> h, bits |-> {}]) : h \in {0, 1}}
    \cup {EndFont, EndProperties, EndChar, Unknown(<<"H">>)}
    \cup {Comment(u) : u \in QuoteTexts}
    \cup {PropertyEntry(<<"H">>, PropertyString(u)) : u \in QuoteTexts}

\* the identifiers of the lines parsed: the reserved ones and one that is not
Identifiers == Reserved \cup {"H"}

\* remainders that are no sequence of Words: the other digits, a quote alone,
\* a quoted text that is not closed, quoted texts with doubled quotes
Remainders ==
    {<<"0">>, <<"2">>, <<"3">>, <<"0", "1">>, <<Quote>>, <<Quote, "h">>,
     <<Quote, Quote>>, <<Quote, "h", Quote, Quote, "h", Quote>>}

\* the lines parsed: an identifier alone, or an identifier, a space and a
\* remainder
LinesParsed ==
    {<<id>> : id \in Identifiers}
    \cup {<<id, Space>> \o Join(pieces) :
            id \in Identifiers, pieces \in Seqs(Words, MaxFields) \ {<<>>}}
    \cup {<<id, Space>> \o r : id \in Identifiers, r \in Remainders}

EntryInit ==
    /\ map = BitmapNew(0, 0)
    /\ sink = <<>>
    /\ ret = Idle
    /\ reader = ReaderNew
    /\ AssemblyInit
    /\ \/ /\ entry \in Records
          /\ input = <<>>
          /\ stream = <<>>
          /\ pc = "write"
       \/ /\ entry = NoEntry
          /\ \E line \in LinesParsed : input \in {<<line>>, <<(<<>>), line>>}
          /\ stream = input
          /\ pc = "parse"

\* reader.entry() on the line
ParseLine ==
    /\ pc = "parse"
    /\ \E out \in {ReaderEntry(reader, stream)} :
           /\ ret' = out.ret
           /\ reader' = out.reader
           /\ stream' = out.stream
           /\ entry' = IF IsOk(out.ret) THEN out.ret.value ELSE NoEntry
    /\ pc' = "rewrite"
    /\ UNCHANGED <<map, input, sink, assembly>>

\* writer.entry(&entry) on the record parsed
RewriteEntry ==
    /\ pc = "rewrite"
    /\ entry # NoEntry
    /\ \E r \in {WriterEntry(entry)} :
           /\ sink' = IF IsOk(r) THEN r.value ELSE <<>>
           /\ ret' = IF IsOk(r) THEN Ok("unit") ELSE r
    /\ pc' = "rewritten"
    /\ UNCHANGED <<map, entry, input, stream, reader, assembly>>

EntryNext == WriteEntry \/ ReadEntry \/ ParseLine \/ RewriteEntry

SpecEntry == EntryInit /\ [][EntryNext]_vars

\* the identifiers whose record needs a value
ValueIds ==
    {"FONT", "SIZE", "FONTBOUNDINGBOX", "CONTENTVERSION", "CHARS", "STARTCHAR",
     "ENCODING", "METRICSSET", "SWIDTH", "DWIDTH", "SWIDTH1", "DWIDTH1", "VVECTOR",
     "BBX", "STARTPROPERTIES"}

\* a line has been parsed that is the identifier id and nothing else
Bare(id) == pc = "rewrite" /\ input[Len(input)] = <<id>>

\* C9: a STARTFONT line with no remainder makes entry() fail with
\* MissingVersion carrying the number and the text of the line; each of the
\* fifteen other identifiers that need a value, on a line with no remainder,
\* makes it fail with MissingValue naming the identifier
MissingRemainder ==
    /\ Bare("STARTFONT") => ret = Err(MissingVersion(<<"STARTFONT">>, Len(input)))
    /\ \A id \in ValueIds : Bare(id) => ret = Err(MissingValue(<<id>>, Len(input)))

\* a STARTFONT line with no remainder, second line of its stream, has been
\* parsed
BareStartFontReached ==
    /\ Bare("STARTFONT")
    /\ Len(input) = 2
    /\ ret.tag = "Err"
    /\ ret.error.kind = "MissingVersion"
    /\ ret.error.line_number = 2

\* a and b are the same line up to the doubling of quotes
SameUpToQuotes(a, b) == Undouble(a) = Undouble(b)

\* C10 as stated: the text Writer::entry writes for a record of any type but
\* Unknown, parsed by a fresh Reader, gives a record equal to the one written;
\* and the record a line parses to is written as that line, up to the escaping
\* of quotes
RecordRoundTrip ==
    /\ (pc = "done" /\ entry.tag \notin {"None", "Unknown"} /\ input = sink) =>
            ret = Ok(entry)
    /\ pc = "rewritten" =>
            /\ IsOk(ret)
            /\ Len(sink) = 1
            /\ SameUpToQuotes(sink[1], input[Len(input)])

---------------------------------------------------------------------------
(* Spec: read() assembles a font from a stream, one turn of its loop at a  *)
(* time; or write() serializes a font and read() reads what it has written. *)

StartFontLine == <<"STARTFONT", " ", "2", ".", "2">>

FontLine == <<"FONT", " ", "t", "e", "s", "t">>

SizeLine == <<"SIZE", " ", "1", "6", " ", "1", "0", "0", " ", "1", "0", "0">>

BoundsLine == <<"FONTBOUNDINGBOX", " ", "6", " ", "1", "1", " ", "0", " ", "-", "2">>

CharsLine == <<"CHARS", " ", "0">>

EndFontLine == <<(<<"ENDFONT">>)>>

\* the lines of a character block: its name, its ENCODING remainder, whether
\* it has a BBX line; its bitmap is one pixel, set
Block(name, code, boxed) ==
    << <<"STARTCHAR", " ", name>>, <<"ENCODING", " ">> \o code >>
    \o (IF boxed THEN << <<"BBX", " ", "1", " ", "1", " ", "0", " ", "0">> >> ELSE <<>>)
    \o << <<"BITMAP">>, <<"8", "0">>, <<"ENDCHAR">> >>

\* two well-formed blocks of different codepoints
BlockA == Block("a", <<"6", "5">>, TRUE)

BlockB == Block("b", <<"6", "6">>, TRUE)

\* a block whose ENCODING is a surrogate: no char has that number
BlockSurrogate == Block("c", <<"5", "5", "2", "9", "6">>, TRUE)

\* a block without bounding box
BlockUnboxed == Block("d", <<"6", "5">>, FALSE)

BlockKinds == {BlockA, BlockB, BlockSurrogate, BlockUnboxed}

\* the streams read have at most MaxBlocks character blocks
MaxBlocks == 2

\* the lines of the blocks, one block after the other
RECURSIVE Flatten(_)
Flatten(blocks) ==
    IF Len(blocks) = 0 THEN <<>> ELSE Head(blocks) \o Flatten(Tail(blocks))

\* the sub-sequences of a sequence of lines (the lines kept, in order)
RECURSIVE SubSeqs(_)
SubSeqs(lines) ==
    IF Len(lines) = 0 THEN {<<>>}
    ELSE LET rest == SubSeqs(Tail(lines))
         IN  rest \cup {<<Head(lines)>> \o r : r \in rest}

PropertiesLines ==
    << <<"STARTPROPERTIES", " ", "1">>, <<"H", " ", "1">>, <<"ENDPROPERTIES">> >>

\* a property block that is not closed
OpenProperties == SubSeq(PropertiesLines, 1, 2)

\* a character block that is not closed
OpenBlock == SubSeq(BlockB, 1, Len(BlockB) - 1)

CommentLine == <<"COMMENT", " ", Quote, "h", Quote>>

\* an ENCODING line outside every character block, its number a surrogate
StrayLine == <<"ENCODING", " ", "5", "5", "2", "9", "6">>

\* the streams read: a comment or a stray ENCODING line or neither, STARTFONT
\* or not, any of the FONT, SIZE and FONTBOUNDINGBOX lines, a property block
\* (closed or not) or a CHARS line or neither, the character blocks, a last
\* block that is not closed or not, ENDFONT or not
Streams ==
    {start \o head \o mid \o Flatten(blocks) \o end :
        start \in {<<>>, <<StartFontLine>>, <<CommentLine, StartFontLine>>,
                   <<StrayLine, StartFontLine>>},
        head \in SubSeqs(<<FontLine, SizeLine, BoundsLine>>),
        mid \in {<<>>, <<CharsLine>>, PropertiesLines, OpenProperties},
        blocks \in Seqs(BlockKinds, MaxBlocks),
        end \in {<<>>, EndFontLine, OpenBlock \o EndFontLine}}

\* the lines before the character blocks of a stream with a name, a size and
\* bounds
Preamble == <<StartFontLine, FontLine, SizeLine, BoundsLine>>

\* the scopes a line is probed in: before STARTFONT, at font top level, in a
\* property block that holds H, in a character block with its codepoint and
\* bounding box, in a character block marked by an invalid codepoint
Scopes ==
    {<<>>,
     Preamble,
     Preamble \o << <<"STARTPROPERTIES", " ", "2">>, <<"H", " ", "1">> >>,
     Preamble \o << <<"STARTCHAR", " ", "a">>, <<"ENCODING", " ", "6", "5">>,
                   <<"BBX", " ", "1", " ", "1", " ", "0", " ", "0">> >>,
     Preamble \o << <<"STARTCHAR", " ", "c">>, StrayLine,
                   <<"BBX", " ", "1", " ", "1", " ", "0", " ", "0">> >>}

\* the lines probed: one of each type of record (a BITMAP with its row)
Probes ==
    {<<l>> : l \in
        {CommentLine, StartFontLine, FontLine, SizeLine, BoundsLine, CharsLine,
         <<"CONTENTVERSION", " ", "1">>, <<"STARTCHAR", " ", "e">>,
         <<"ENCODING", " ", "6", "6">>, <<"METRICSSET", " ", "1">>,
         <<"SWIDTH", " ", "1", " ", "2">>, <<"DWIDTH", " ", "1", " ", "2">>,
         <<"SWIDTH1", " ", "1", " ", "2">>, <<"DWIDTH1", " ", "1", " ", "2">>,
         <<"VVECTOR", " ", "1", " ", "2">>,
         <<"BBX", " ", "1", " ", "1", " ", "0", " ", "0">>,
         <<"ENDCHAR">>, <<"ENDFONT">>, <<"STARTPROPERTIES", " ", "1">>,
         <<"ENDPROPERTIES">>, <<"H", " ", "2">>, <<"K", " ", Quote, "h", Quote>>,
         <<"H">>}}
    \cup {<< <<"BITMAP">>, <<"8", "0">> >>}

\* what follows the line probed: nothing, or the end of the block and of the
\* font
Closings ==
    {<<>>, EndFontLine,
     << <<"ENDPROPERTIES">> >> \o EndFontLine,
     << <<"BITMAP">>, <<"8", "0">>, <<"ENDCHAR">> >> \o EndFontLine}

\* a block of the codepoint of BlockA under another name
BlockE == Block("e", <<"6", "5">>, TRUE)

\* a font bounding box of one pixel
SmallBoundsLine == <<"FONTBOUNDINGBOX", " ", "1", " ", "1", " ", "0", " ", "0">>

\* a block whose BBX line comes after its BITMAP, the bitmap sized by the font
\* bounding box of one pixel
LateBoxStream ==
    <<StartFontLine, FontLine, SizeLine, SmallBoundsLine,
      <<"STARTCHAR", " ", "a">>, <<"ENCODING", " ", "6", "5">>,
      <<"BITMAP">>, <<"8", "0">>,
      <<"BBX", " ", "2", " ", "2", " ", "0", " ", "0">>,
      <<"ENDCHAR">>, <<"ENDFONT">> >>

\* a block whose BBX line comes after its BITMAP, after a block that is
\* skipped and has a BBX line and no BITMAP
StaleBoxStream ==
    <<StartFontLine, FontLine, SizeLine, SmallBoundsLine,
      <<"STARTCHAR", " ", "c">>, StrayLine,
      <<"BBX", " ", "3", " ", "0", " ", "0", " ", "0">>, <<"ENDCHAR">>,
      <<"STARTCHAR", " ", "a">>, <<"ENCODING", " ", "6", "5">>,
      <<"BITMAP">>,
      <<"BBX", " ", "1", " ", "1", " ", "0", " ", "0">>,
      <<"ENDCHAR">>, <<"ENDFONT">> >>

\* a well-formed block after an ENCODING line, its number a surrogate, at
\* font top level, and after one in a property block
StrayTopStream == Preamble \o <<StrayLine>> \o BlockA \o EndFontLine

StrayPropertiesStream ==
    Preamble
    \o << <<"STARTPROPERTIES", " ", "1">>, StrayLine, <<"H", " ", "1">>,
          <<"ENDPROPERTIES">> >>
    \o BlockA \o EndFontLine

\* the streams that probe one line in one scope; two blocks of one codepoint,
\* with a CHARS line or none; a block without BBX whose bitmap the font
\* bounding box sizes
ProbeStreams ==
    {scope \o probe \o closing :
        scope \in Scopes, probe \in Probes, closing \in Closings}
    \cup {Preamble \o chars \o Flatten(blocks) \o EndFontLine :
            chars \in {<<>>, <<CharsLine>>},
            blocks \in {<<BlockA, BlockE>>, <<BlockE, BlockA>>}}
    \cup {<<StartFontLine, FontLine, SizeLine, SmallBoundsLine>>
            \o BlockUnboxed \o EndFontLine}
    \cup {LateBoxStream, StaleBoxStream, StrayTopStream, StrayPropertiesStream}

\* the glyphs the fonts written are made of: one valid, one without bounds
GlyphA ==
    [GlyphDefault EXCEPT !.name = <<"a">>, !.codepoint = 65,
                         !.bounds = Some(BoundingBox(1, 1, 0, 0)),
                         !.map = Some([width |-> 1, height |-> 1, bits |-> {0}])]

GlyphB == [GlyphA EXCEPT !.name = <<"b">>, !.codepoint = 66, !.direction = "Both",
                         !.device_width = Some(<<1, 0>>)]

GlyphUnboxed == [GlyphA EXCEPT !.name = <<"d">>, !.bounds = None]

\* the fonts written
Fonts ==
    {[FontDefault EXCEPT !.name = name, !.size = size, !.bounds = bounds,
                         !.version = version, !.direction = direction,
                         !.scalable_width = width, !.properties = properties,
                         !.glyphs = glyphs] :
        name \in {None, Some(<<"t", "e", "s", "t">>)},
        size \in {None, Some([pt |-> 16, x |-> 100, y |-> 100])},
        bounds \in {None, Some(BoundingBox(6, 11, 0, 0 - 2))},
        version \in {None, Some(<<"1">>)},
        direction \in {"Default", "Alternate"},
        width \in {None, Some(<<1, 2>>)},
        properties \in {<<>>, (<<"H">> :> PropertyInteger(1)),
                        (<<"H">> :> PropertyInteger(1))
                            @@ (<<"K">> :> PropertyString(<<"h">>))},
        glyphs \in {<<>>, (65 :> GlyphA), (65 :> GlyphUnboxed),
                    (65 :> GlyphA) @@ (66 :> GlyphB)}}

Init ==
    /\ map = BitmapNew(0, 0)
    /\ entry = NoEntry
    /\ sink = <<>>
    /\ ret = Idle
    /\ reader = ReaderNew
    /\ \/ /\ input \in Streams \cup ProbeStreams
          /\ stream = input
          /\ AssemblyInit
          /\ pc = "loop"
       \/ /\ input = <<>>
          /\ stream = <<>>
          /\ font \in Fonts
          /\ glyph = GlyphDefault
          /\ in_font = FALSE
          /\ in_props = FALSE
          /\ in_char = FALSE
          /\ skip_current_char = FALSE
          /\ accepted = {}
          /\ outcomes = <<>>
          /\ pc = "save"

\* the locals of read() as one record
Locals ==
    [font |-> font, glyph |-> glyph, in_font |-> in_font, in_props |-> in_props,
     in_char |-> in_char, skip_current_char |-> skip_current_char]

\* one turn of the loop of read(): reader.entry() and what read() does with
\* its outcome; entry keeps the record of the turn
ReadTurn ==
    /\ pc = "loop"
    /\ \E out \in {ReaderEntry(reader, stream)} :
        \E turn \in {Assemble(Locals, out.ret)} :
            /\ reader' = out.reader
            /\ stream' = out.stream
            /\ entry' = IF IsOk(out.ret) THEN out.ret.value ELSE NoEntry
            /\ font' = turn.l.font
            /\ glyph' = turn.l.glyph
            /\ in_font' = turn.l.in_font
            /\ in_props' = turn.l.in_props
            /\ in_char' = turn.l.in_char
            /\ skip_current_char' = turn.l.skip_current_char
            /\ accepted' = accepted \cup turn.stored
            /\ ret' = turn.ret
            /\ pc' = IF turn.done THEN "returned" ELSE "loop"
    /\ UNCHANGED <<map, input, sink, outcomes>>

\* write(sink, &font), the hash maps iterated in some order
Write ==
    /\ pc = "save"
    /\ \E names \in Orders(DOMAIN font.properties),
          codepoints \in Orders(DOMAIN font.glyphs) :
        \E w \in {WriteFont(font, names, codepoints)} :
            /\ sink' = w.lines
            /\ ret' = w.ret
    /\ pc' = "saved"
    /\ UNCHANGED <<map, entry, input, stream, reader, font, glyph, in_font, in_props,
                   in_char, skip_current_char, accepted, outcomes>>

\* read() on the lines write() has written
ReadBack ==
    /\ pc = "saved"
    /\ IsOk(ret)
    /\ ret' = ReadFrom(LocalsNew, ReaderNew, sink)
    /\ pc' = "reread"
    /\ UNCHANGED <<map, entry, input, sink, stream, reader, assembly>>

Next == ReadTurn \/ Write \/ ReadBack

Spec == Init /\ [][Next]_vars

\* read() alone, on the streams that probe one line in one scope: a loop that
\* has not returned takes its next turn
ReadInit ==
    /\ map = BitmapNew(0, 0)
    /\ entry = NoEntry
    /\ sink = <<>>
    /\ ret = Idle
    /\ reader = ReaderNew
    /\ input \in ProbeStreams
    /\ stream = input
    /\ AssemblyInit
    /\ pc = "loop"

\* weak fairness of the turn, WF_vars(ReadTurn), with ENABLED <<ReadTurn>>_vars
\* written out: a turn can be taken exactly while the loop has not returned
SpecLive ==
    /\ ReadInit
    /\ [][ReadTurn]_vars
    /\ ([]<>(pc # "loop") \/ []<><<ReadTurn>>_vars)

\* read() has returned
Returned == pc = "returned"

LiteralStream == <<StartFontLine, FontLine, SizeLine, BoundsLine, CharsLine>> \o EndFontLine

\* C6: read on the lines STARTFONT 2.2, FONT test, SIZE 16 100 100,
\* FONTBOUNDINGBOX 6 11 0 -2, CHARS 0, ENDFONT returns Ok with a font of format
\* 2.2, name test, size {16, 100, 100}, bounds {6, 11, 0, -2}, no glyph and no
\* property
LiteralFontRead ==
    (Returned /\ input = LiteralStream) =>
        /\ IsOk(ret)
        /\ ret.value.format = <<"2", ".", "2">>
        /\ ret.value.name = Some(<<"t", "e", "s", "t">>)
        /\ ret.value.size = Some([pt |-> 16, x |-> 100, y |-> 100])
        /\ ret.value.bounds = Some([width |-> 6, height |-> 11, x |-> 0, y |-> 0 - 2])
        /\ DOMAIN ret.value.glyphs = {}
        /\ DOMAIN ret.value.properties = {}

\* read has returned a font for the six lines
LiteralFontReached ==
    /\ Returned
    /\ input = LiteralStream
    /\ stream = <<>>
    /\ entry = EndFont
    /\ IsOk(ret)

\* the kinds of record a valid font needs
Required == {"Font", "Size", "FontBoundingBox"}

\* C7: read returns Ok(font) only if a FONT, a SIZE and a FONTBOUNDINGBOX
\* record were each stored at font top level, and the font returned satisfies
\* validate(); when ENDFONT arrives at font top level with one of the three
\* missing read returns MalformedFont; write on a font whose name, size or
\* bounds is absent returns MalformedFont
FontValidity ==
    /\ (Returned /\ IsOk(ret)) =>
            /\ Required \subseteq accepted
            /\ ret.value.name.some /\ ret.value.size.some /\ ret.value.bounds.some
    /\ (Returned /\ entry = EndFont /\ in_font /\ ~in_char /\ ~in_props
            /\ ~(Required \subseteq accepted)) => ret = Err(MalformedFont)
    /\ (pc = "saved" /\ ~(font.name.some /\ font.size.some /\ font.bounds.some)) =>
            ret = Err(MalformedFont) /\ sink = <<>>

\* ENDFONT has arrived at font top level with only the SIZE record missing
MissingSizeReached ==
    /\ Returned
    /\ entry = EndFont
    /\ in_font /\ ~in_char /\ ~in_props
    /\ accepted = {"Font", "FontBoundingBox"}
    /\ ret = Err(MalformedFont)

\* block occurs in lines
Occurs(block, lines) ==
    \E i \in 1..(Len(lines) - Len(block) + 1) :
        SubSeq(lines, i, i + Len(block) - 1) = block

\* lines without the occurrences of block
RECURSIVE Without(_, _)
Without(block, lines) ==
    IF Len(lines) = 0 THEN <<>>
    ELSE IF Len(lines) >= Len(block) /\ SubSeq(lines, 1, Len(block)) = block
    THEN Without(block, SubSeq(lines, Len(block) + 1, Len(lines)))
    ELSE <<Head(lines)>> \o Without(block, Tail(lines))

\* the codepoints of the well-formed blocks of the stream
WellFormedCodepoints ==
    {c \in {65, 66} : Occurs(IF c = 65 THEN BlockA ELSE BlockB, input)}

\* the stream has an ENCODING line with no scalar value outside every block
Stray == Len(input) > 0 /\ input[1] = StrayLine

---------------------------------------------------------------------------
(* write() and read() of what it has written *)

\* the font has been written and the lines written have been read
Reread == pc = "reread"

\* C11 as stated: for every font that passes validate() and whose glyphs all
\* pass validate(), whatever its direction, its width and vector pairs and
\* those of its glyphs, read applied to the lines write has written returns Ok
\* with a font of the same format, name, version, size, bounds, direction,
\* width and vector pairs, property table and glyph table
WriteReadInverse ==
    Reread => /\ IsOk(ret)
              /\ \A field \in DOMAIN FontDefault : ret.value[field] = font[field]

\* write() has written the font
Saved == pc = "saved" /\ IsOk(ret)

\* the kind of each line written: its first word, or "row" for a line of
\* hexadecimal digits
Kinds ==
    [i \in 1..Len(sink) |->
        IF \E d \in 1..Len(HexUpper) : HexUpper[d] = sink[i][1] THEN "row"
        ELSE sink[i][1]]

\* the records of the font before its property block, those of a glyph before
\* its rows, in the order stated
TopOrder ==
    <<"STARTFONT", "FONT", "SIZE", "CONTENTVERSION", "FONTBOUNDINGBOX", "METRICSSET",
      "SWIDTH", "DWIDTH", "SWIDTH1", "DWIDTH1", "VVECTOR">>

GlyphOrder ==
    <<"STARTCHAR", "ENCODING", "METRICSSET", "SWIDTH", "DWIDTH", "SWIDTH1", "DWIDTH1",
      "VVECTOR", "BBX", "BITMAP">>

\* whether the record of the kind k is due for o, a Font or a Glyph
Due(o, k) ==
    CASE k = "CONTENTVERSION" -> o.version.some
      [] k = "METRICSSET" -> o.direction # "Default"
      [] k \in PairIds -> o[PairField[PairTags[k]]].some
      [] OTHER -> TRUE

\* the kinds due for the property block, the names in some order, and CHARS
TableKinds(names) ==
    (IF DOMAIN font.properties = {} THEN <<>>
     ELSE <<"STARTPROPERTIES">> \o [i \in 1..Len(names) |-> names[i][1]]
          \o <<"ENDPROPERTIES">>)
    \o <<"CHARS">>

\* the kinds due for the glyph g
GlyphKinds(g) ==
    SelectSeq(GlyphOrder, LAMBDA k : Due(g, k))
    \o [y \in 1..g.map.value.height |-> "row"] \o <<"ENDCHAR">>

Written == pc = "saved"

\* the font written lacks its name, its size or its bounds
FontIncomplete == ~(font.name.some /\ font.size.some /\ font.bounds.some)

\* a glyph of the font written lacks its bounding box or its bitmap
GlyphIncomplete ==
    \E c \in DOMAIN font.glyphs :
        ~(font.glyphs[c].bounds.some /\ font.glyphs[c].map.some)

\* C13: write on a font that fails validate() returns MalformedFont; on a
\* font that passes it and has a glyph that fails validate() it returns
\* MalformedChar; in both cases nothing has been written, and when the font
\* and a glyph both fail the outcome is MalformedFont
PreFlight ==
    Written =>
        /\ FontIncomplete => ret = Err(MalformedFont) /\ sink = <<>>
        /\ (~FontIncomplete /\ GlyphIncomplete) =>
                ret = Err(MalformedChar) /\ sink = <<>>

\* write has returned for a font without size that has a glyph without
\* bounding box
BothIncompleteReached ==
    /\ Written
    /\ font.name.some /\ ~font.size.some /\ font.bounds.some
    /\ GlyphIncomplete
    /\ ret = Err(MalformedFont)
    /\ sink = <<>>

---------------------------------------------------------------------------
(* Writer::entry on one record *)

\* Writer::entry has returned or panicked on the record entry
EntryWritten == pc \in {"read", "done"} /\ entry # NoEntry /\ input = sink

\* the identifier Writer::entry begins the text of each type of record with
KeywordOf ==
    [StartFont |-> "STARTFONT", Comment |-> "COMMENT",
     ContentVersion |-> "CONTENTVERSION", Font |-> "FONT", Size |-> "SIZE",
     Chars |-> "CHARS", FontBoundingBox |-> "FONTBOUNDINGBOX", EndFont |-> "ENDFONT",
     StartProperties |-> "STARTPROPERTIES", EndProperties |-> "ENDPROPERTIES",
     StartChar |-> "STARTCHAR", Encoding |-> "ENCODING", Direction |-> "METRICSSET",
     ScalableWidth |-> "SWIDTH", DeviceWidth |-> "DWIDTH",
     AlternateScalableWidth |-> "SWIDTH1", AlternateDeviceWidth |-> "DWIDTH1",
     Vector |-> "VVECTOR", BoundingBox |-> "BBX", Bitmap |-> "BITMAP",
     EndChar |-> "ENDCHAR"]

\* C14: Writer::entry on an Unknown record panics and writes nothing; on a
\* record of any other type it returns Ok and has written the text of that
\* one record: one line that begins with the record's identifier (the name,
\* for a Property), and for a Bitmap the rows after it
UnknownPanics ==
    EntryWritten =>
        IF entry.tag = "Unknown" THEN pc = "done" /\ ret = Panic /\ sink = <<>>
        ELSE /\ pc = "done" \/ ret = Ok("unit")
             /\ Len(sink) = IF entry.tag = "Bitmap" THEN 1 + entry.map.height ELSE 1
             /\ sink[1][1] = IF entry.tag = "Property" THEN entry.name[1]
                              ELSE KeywordOf[entry.tag]

\* Writer::entry has panicked on an Unknown record
UnknownWritten ==
    /\ EntryWritten
    /\ entry = Unknown(<<"H">>)
    /\ ret = Panic
    /\ sink = <<>>

---------------------------------------------------------------------------
(* Reader::entry on one line *)

\* the line Reader::entry has parsed
Line == input[Len(input)]

\* Reader::entry has returned or panicked on a line that is the identifier
\* id, a space and a remainder
Parsed(id) == pc = "rewrite" /\ Len(Line) >= 2 /\ Line[1] = id /\ Line[2] = Space

\* the remainder of that line
Remainder == Trim(SubSeq(Line, 3, Len(Line)))

\* the METRICSSET value of each Direction
DirectionCode == [Default |-> <<"0">>, Alternate |-> <<"1">>, Both |-> <<"2">>]

\* C15: a METRICSSET line with the remainder 0, 1 or 2 parses to the
\* Direction Default, Alternate or Both, with any other remainder entry()
\* fails with MissingValue naming METRICSSET; Writer::entry writes the
\* Directions Default, Alternate and Both as METRICSSET 0, 1 and 2, and the
\* line written parses to the Direction written
MetricsSetBijection ==
    /\ Parsed("METRICSSET") =>
            IF \E d \in DOMAIN DirectionCode : DirectionCode[d] = Remainder
            THEN /\ IsOk(ret)
                 /\ ret.value.tag = "Direction"
                 /\ DirectionCode[ret.value.direction] = Remainder
            ELSE ret = Err(MissingValue(<<"METRICSSET">>, Len(input)))
    /\ (EntryWritten /\ entry.tag = "Direction") =>
            /\ sink = << <<"METRICSSET", Space>> \o DirectionCode[entry.direction] >>
            /\ pc = "done" => ret = Ok(entry)

\* the line METRICSSET 2 has been parsed to the Direction Both
MetricsSetBothReached ==
    /\ Parsed("METRICSSET")
    /\ Remainder = <<"2">>
    /\ ret = Ok(DirectionEntry("Both"))

\* C16 as stated: a line whose identifier is none of the reserved ones never
\* makes entry() fail: with a space in the line it gives the Property record
\* of the identifier and of Property::parse of the remainder, without one it
\* gives the Unknown record of the identifier
UnreservedIdentifier ==
    /\ Parsed("H") =>
            /\ IsOk(ret)
            /\ ret.value = PropertyEntry(<<"H">>, PropertyParse(Remainder).value)
    /\ (pc = "rewrite" /\ Line = <<"H">>) => ret = Ok(Unknown(<<"H">>))

\* a text of two characters or more between double quotes
IsQuoted(t) == Len(t) >= 2 /\ t[1] = Quote /\ t[Len(t)] = Quote

\* C17 as stated: a COMMENT line whose remainder is a text t that is not
\* quoted gives Comment(t), and one whose remainder is t between double
\* quotes gives Comment(t) too
CommentTexts ==
    Parsed("COMMENT") =>
        IF IsQuoted(Remainder)
        THEN ret = Ok(Comment(Undouble(SubSeq(Remainder, 2, Len(Remainder) - 1))))
        ELSE (Len(Remainder) = 0 \/ Remainder[1] # Quote) => ret = Ok(Comment(Remainder))

\* the number of quotes among the first n characters of s
QuoteCount(s, n) == Cardinality({i \in 1..n : s[i] = Quote})

\* t is s with every quote doubled, between two quotes
Escaped(s, t) ==
    /\ Len(t) = Len(s) + QuoteCount(s, Len(s)) + 2
    /\ t[1] = Quote
    /\ t[Len(t)] = Quote
    /\ \A i \in 1..Len(s) :
            LET at == 1 + i + QuoteCount(s, i - 1)
            IN  t[at] = s[i] /\ (s[i] = Quote => t[at + 1] = Quote)

\* C18: Writer::entry writes the text s of a comment or of a string property
\* with every quote doubled and between two quotes, after the identifier and
\* one space; Reader::entry on the line written gives the record written, its
\* text exactly s
QuoteRoundTrip ==
    (EntryWritten /\ (entry.tag = "Comment"
                       \/ (entry.tag = "Property" /\ entry.value.tag = "String"))) =>
        LET s == IF entry.tag = "Comment" THEN entry.string ELSE entry.value.string
            id == IF entry.tag = "Comment" THEN "COMMENT" ELSE entry.name[1]
        IN  /\ Len(sink) = 1
            /\ SubSeq(sink[1], 1, 2) = <<id, Space>>
            /\ Escaped(s, SubSeq(sink[1], 3, Len(sink[1])))
            /\ pc = "done" => ret = Ok(entry)

\* a comment that is two quotes has been written and read
QuotesOnlyReached ==
    /\ EntryWritten
    /\ pc = "done"
    /\ entry = Comment(<<Quote, Quote>>)
    /\ sink = << <<"COMMENT", Space, Quote, Quote, Quote, Quote, Quote, Quote>> >>
    /\ ret = Ok(entry)

---------------------------------------------------------------------------
(* read(): the scopes *)

\* C19 as stated: a turn of read() taken before STARTFONT either ignores a
\* comment, the locals unchanged, or takes a STARTFONT record, sets the format
\* and enters the font, nothing else changed, or returns an error: no other
\* line lets the loop go on or changes a local
OutsideFontStrict ==
    [][(pc = "loop" /\ ~in_font) =>
            \/ pc' = "returned" /\ IsErr(ret')
            \/ pc' = "loop" /\ entry'.tag = "Comment" /\ UNCHANGED assembly
            \/ /\ pc' = "loop"
               /\ entry'.tag = "StartFont"
               /\ in_font'
               /\ font' = [font EXCEPT !.format = entry'.string]
               /\ UNCHANGED <<glyph, in_props, in_char, skip_current_char, accepted,
                              outcomes>>]_vars

\* read() has returned on an ENDFONT record
AtEnd == Returned /\ entry = EndFont /\ in_font

\* C20: an ENDFONT record that arrives while a character block is open makes
\* read return MalformedChar, one that arrives while a property block is open
\* makes it return MalformedProperties; no font is returned, also when the
\* name, the size and the bounds are set
EndFontInsideBlock ==
    /\ (AtEnd /\ in_char) => ret = Err(MalformedChar)
    /\ (AtEnd /\ in_props) => ret = Err(MalformedProperties)
    /\ (Returned /\ input = Preamble \o OpenBlock \o EndFontLine) =>
            ret = Err(MalformedChar)
    /\ (Returned /\ input = Preamble \o OpenProperties \o EndFontLine) =>
            ret = Err(MalformedProperties)

\* ENDFONT has arrived inside a character block, after a name, a size and
\* bounds
EndFontInCharReached ==
    /\ AtEnd
    /\ in_char /\ ~in_props
    /\ Required \subseteq accepted
    /\ FontValidate(font)
    /\ stream = <<>>
    /\ ret = Err(MalformedChar)


\* a turn of read() that has taken a record
Took(tag) == pc = "loop" /\ entry'.tag = tag

\* the turn goes on and changes no local but the ones named
Goes == pc' = "loop" /\ in_font' = in_font /\ accepted' = accepted

\* C21 as stated: in a property block a turn of read() on ENDPROPERTIES
\* leaves the block, a turn on a property record stores its value under its
\* name, replacing the value the name had, and a turn on any other record,
\* STARTPROPERTIES and STARTCHAR and COMMENT among them, returns
\* MalformedProperties
InsidePropertiesStrict ==
    [][(pc = "loop" /\ in_props /\ entry' # NoEntry) =>
            \/ /\ Took("EndProperties")
               /\ Goes
               /\ ~in_props'
               /\ UNCHANGED <<font, glyph, in_char, skip_current_char>>
            \/ /\ Took("Property")
               /\ Goes
               /\ in_props'
               /\ DOMAIN font'.properties = DOMAIN font.properties \cup {entry'.name}
               /\ \A name \in DOMAIN font'.properties :
                    font'.properties[name] =
                        IF name = entry'.name THEN entry'.value
                        ELSE font.properties[name]
               /\ [font' EXCEPT !.properties = <<>>]
                    = [font EXCEPT !.properties = <<>>]
               /\ UNCHANGED <<glyph, in_char, skip_current_char>>
            \/ /\ entry'.tag \notin {"EndProperties", "Property"}
               /\ pc' = "returned"
               /\ ret' = Err(MalformedProperties)]_vars

\* C22 as stated: in a character block a turn of read() on ENDCHAR closes the
\* block or returns MalformedChar, a turn on ENCODING, on a width or vector
\* pair, on BBX or on BITMAP sets that field of the glyph under construction
\* and nothing else, and a turn on any other record, a second STARTCHAR among
\* them, returns MalformedChar
InsideCharStrict ==
    [][(pc = "loop" /\ in_char /\ entry' # NoEntry) =>
            \/ /\ Took("EndChar")
               /\ \/ Goes /\ ~in_char'
                  \/ pc' = "returned" /\ ret' = Err(MalformedChar)
            \/ /\ \/ /\ Took("Encoding")
                     /\ glyph' = [glyph EXCEPT !.codepoint = entry'.codepoint]
                  \/ /\ entry'.tag \in DOMAIN PairField
                     /\ glyph' = [glyph EXCEPT ![PairField[entry'.tag]] =
                                                    Some(<<entry'.x, entry'.y>>)]
                  \/ /\ Took("BoundingBox")
                     /\ glyph' = [glyph EXCEPT !.bounds = Some(entry'.bbx)]
                  \/ /\ Took("Bitmap")
                     /\ glyph' = [glyph EXCEPT !.map = Some(entry'.map)]
               /\ Goes
               /\ in_char'
               /\ UNCHANGED <<font, in_props, skip_current_char>>
            \/ /\ entry'.tag \notin
                    {"EndChar", "Encoding", "BoundingBox", "Bitmap"}
                        \cup DOMAIN PairField
               /\ pc' = "returned"
               /\ ret' = Err(MalformedChar)]_vars


---------------------------------------------------------------------------
(* read(): the glyph table *)

\* what entry() makes of a line taken alone
RecordOf(line) == ReaderEntry(ReaderNew, <<line>>).ret

\* the positions read() has consumed, and the ENDCHAR lines among them
Consumed == 1..(Len(input) - Len(stream))

EndChars == {i \in Consumed : input[i] = <<"ENDCHAR">>}

\* the lines the ENDCHAR at i finalizes: the ones since the ENDCHAR before
BlockOf(i) == {j \in 1..(i - 1) : \A k \in EndChars : k < i => k < j}

\* the records of a type among the lines the ENDCHAR at i finalizes
RecordsOf(i, tag) ==
    {j \in BlockOf(i) : IsOk(RecordOf(input[j])) /\ RecordOf(input[j]).value.tag = tag}

\* the block has an ENCODING line whose number is no char
Skipped(i) ==
    \E j \in BlockOf(i) :
        IsErr(RecordOf(input[j])) /\ RecordOf(input[j]).error.kind = "InvalidCodepoint"

\* the codepoint and the name the block gives its glyph: the last it states
CodeOf(i) ==
    IF RecordsOf(i, "Encoding") = {} THEN GlyphDefault.codepoint
    ELSE RecordOf(input[SetMax(RecordsOf(i, "Encoding"))]).value.codepoint

NameOf(i) ==
    IF RecordsOf(i, "StartChar") = {} THEN GlyphDefault.name
    ELSE RecordOf(input[SetMax(RecordsOf(i, "StartChar"))]).value.string

\* the ENDCHAR lines that store a glyph
Finalized == {i \in EndChars : ~Skipped(i)}

\* C23: the glyph table of a font read() returns holds, for each codepoint of
\* a finalized block that is not skipped, one glyph, stored under its own
\* codepoint and named by the last such block of that codepoint; it has no
\* more glyphs than the stream has ENDCHAR lines, and read() returns the same
\* font when the CHARS line is taken out of the stream
GlyphKeying ==
    (Returned /\ IsOk(ret)) =>
        /\ DOMAIN ret.value.glyphs = {CodeOf(i) : i \in Finalized}
        /\ \A c \in DOMAIN ret.value.glyphs :
            /\ ret.value.glyphs[c].codepoint = c
            /\ ret.value.glyphs[c].name =
                    NameOf(SetMax({i \in Finalized : CodeOf(i) = c}))
        /\ Cardinality(DOMAIN ret.value.glyphs) <= Cardinality(EndChars)
        /\ ReadFrom(LocalsNew, ReaderNew, Without(<<CharsLine>>, input)) = ret

\* a font has been read from a stream that declares no character and has two
\* blocks of one codepoint: the one glyph is the second block's
OverwrittenGlyphReached ==
    /\ Returned
    /\ IsOk(ret)
    /\ input = Preamble \o <<CharsLine>> \o BlockA \o BlockE \o EndFontLine
    /\ Cardinality(EndChars) = 2
    /\ DOMAIN ret.value.glyphs = {65}
    /\ ret.value.glyphs[65].name = <<"e">>


---------------------------------------------------------------------------
(* read(): METRICSSET *)

\* C24: a turn of read() on a METRICSSET record returns: MalformedProperties
\* in a property block, MalformedChar in a character block, MalformedFont at
\* font top level and before STARTFONT; read() never goes on after such a
\* record, and every font it returns has the direction Default, and so has
\* every glyph of the font
DirectionRejected ==
    /\ pc = "loop" => entry.tag # "Direction"
    /\ (Returned /\ entry.tag = "Direction") =>
            ret = Err(IF in_props THEN MalformedProperties
                      ELSE IF in_char THEN MalformedChar
                      ELSE MalformedFont)
    /\ (Returned /\ IsOk(ret)) =>
            /\ ret.value.direction = "Default"
            /\ \A c \in DOMAIN ret.value.glyphs :
                    ret.value.glyphs[c].direction = "Default"

\* a METRICSSET line has arrived in a character block that has its codepoint
\* and its bounding box
DirectionInCharReached ==
    /\ Returned
    /\ entry.tag = "Direction"
    /\ in_font /\ in_char /\ ~in_props
    /\ glyph.bounds.some
    /\ ret = Err(MalformedChar)


---------------------------------------------------------------------------
(* SpecReader: entry() is called on a Reader until the stream has ended;    *)
(* outcomes keeps, for each call, what it returned and where it left the    *)
(* stream and the line counter.                                             *)

\* the streams of this scenario have at most MaxLines lines
MaxLines == 4

\* the lines they are made of: a font bounding box and a character bounding
\* box of height 0, a character bounding box of height 2, BITMAP, a row, a
\* line that is no row, an empty line, a SIZE line without value, a
\* FONTBOUNDINGBOX line whose width is no number, a BBX line of three fields
ReaderLines ==
    {<<"FONTBOUNDINGBOX", " ", "1", " ", "0", " ", "0", " ", "0">>,
     <<"BBX", " ", "2", " ", "0", " ", "0", " ", "0">>,
     <<"BBX", " ", "3", " ", "2", " ", "0", " ", "0">>,
     <<"BITMAP">>, <<"8", "0">>, <<"G">>, <<>>, <<"SIZE">>,
     <<"FONTBOUNDINGBOX", " ", "G", " ", "0", " ", "0", " ", "0">>,
     <<"BBX", " ", "4", " ", "0", " ", "0">>}

ReaderInit ==
    /\ map = BitmapNew(0, 0)
    /\ entry = NoEntry
    /\ sink = <<>>
    /\ ret = Idle
    /\ reader = ReaderNew
    /\ AssemblyInit
    /\ input \in Seqs(ReaderLines, MaxLines)
    /\ stream = input
    /\ pc \in {"next", "iterate"}

\* one call of reader.entry(); the call that finds the stream ended is the
\* last.  line is the position of the line the call has matched (0 when the
\* stream ended), upto the position of the last line it has consumed, counter
\* the line counter it leaves
NextEntry ==
    /\ pc = "next"
    /\ \E out \in {ReaderEntry(reader, stream)} :
           /\ ret' = out.ret
           /\ reader' = out.reader
           /\ stream' = out.stream
           /\ entry' = IF IsOk(out.ret) THEN out.ret.value ELSE NoEntry
           /\ outcomes' = Append(outcomes,
                [ret |-> out.ret,
                 line |-> IF LeadingEmpty(stream) = Len(stream) THEN 0
                          ELSE Len(input) - Len(stream) + LeadingEmpty(stream) + 1,
                 upto |-> Len(input) - Len(out.stream),
                 counter |-> out.reader.line_number])
           /\ pc' = IF out.ret = Err(End) THEN "ended" ELSE "next"
    /\ UNCHANGED <<map, input, sink, font, glyph, in_font, in_props, in_char,
                   skip_current_char, accepted>>

\* Iterator::next for Reader: the record of entry(), or None when entry()
\* fails; a panic of entry() unwinds it
IteratorNext(rd, st) ==
    LET out == ReaderEntry(rd, st)
    IN  [item |-> IF IsPanic(out.ret) THEN Panic
                  ELSE IF IsOk(out.ret) THEN Some(out.ret.value)
                  ELSE None,
         out |-> out]

\* one step of a loop over the Reader as an iterator: the loop ends on None.
\* ret keeps the item, outcomes what entry() returned inside next()
Iterate ==
    /\ pc = "iterate"
    /\ \E step \in {IteratorNext(reader, stream)} :
           /\ ret' = step.item
           /\ reader' = step.out.reader
           /\ stream' = step.out.stream
           /\ entry' = IF IsOk(step.out.ret) THEN step.out.ret.value ELSE NoEntry
           /\ outcomes' = Append(outcomes,
                [ret |-> step.out.ret,
                 line |-> IF LeadingEmpty(stream) = Len(stream) THEN 0
                          ELSE Len(input) - Len(stream) + LeadingEmpty(stream) + 1,
                 upto |-> Len(input) - Len(step.out.stream),
                 counter |-> step.out.reader.line_number])
           /\ pc' = IF step.item = None THEN "exhausted" ELSE "iterate"
    /\ UNCHANGED <<map, input, sink, font, glyph, in_font, in_props, in_char,
                   skip_current_char, accepted>>

ReaderNext == NextEntry \/ Iterate

SpecReader == ReaderInit /\ [][ReaderNext]_vars

\* the calls made so far, and the ones that have matched a BITMAP line
Calls == 1..Len(outcomes)

OnBitmap(k) == outcomes[k].line > 0 /\ input[outcomes[k].line] = <<"BITMAP">>

\* call j has returned a record of the type
Gave(j, tag) == IsOk(outcomes[j].ret) /\ outcomes[j].ret.value.tag = tag

\* the bounding box records before call k: the BBX records no successful
\* BITMAP has followed, and the FONTBOUNDINGBOX records
Pending(k) ==
    {j \in 1..(k - 1) :
        Gave(j, "BoundingBox") /\ \A i \in (j + 1)..(k - 1) : ~Gave(i, "Bitmap")}

Defaults(k) == {j \in 1..(k - 1) : Gave(j, "FontBoundingBox")}

\* the box the claim sizes the bitmap of call k with
SizingBox(k) ==
    IF Pending(k) # {} THEN outcomes[SetMax(Pending(k))].ret.value.bbx
    ELSE outcomes[SetMax(Defaults(k))].ret.value.bbx

\* the line counter before call k
CounterBefore(k) == IF k = 1 THEN 0 ELSE outcomes[k - 1].counter

UptoBefore(k) == IF k = 1 THEN 0 ELSE outcomes[k - 1].upto

\* C25: a call of entry() on a BITMAP line, when neither a BBX nor a
\* FONTBOUNDINGBOX record came before, fails with MissingBoundingBox for the
\* line; otherwise it takes its size from the last BBX record that no
\* successful BITMAP has followed, or without one from the last
\* FONTBOUNDINGBOX record: the bitmap it returns has that width and height,
\* and, also when a row fails to parse, the line counter advances by that
\* height
BitmapSizing ==
    \A k \in Calls : OnBitmap(k) =>
        IF Pending(k) = {} /\ Defaults(k) = {}
        THEN outcomes[k].ret =
                Err(MissingBoundingBox(<<"BITMAP">>, outcomes[k].counter))
        ELSE /\ \/ /\ Gave(k, "Bitmap")
                   /\ outcomes[k].ret.value.map.width = SizingBox(k).width
                   /\ outcomes[k].ret.value.map.height = SizingBox(k).height
                \/ /\ IsErr(outcomes[k].ret)
                   /\ outcomes[k].ret.error.kind = "Parse"
             /\ outcomes[k].counter - CounterBefore(k) =
                    (outcomes[k].line - UptoBefore(k)) + SizingBox(k).height

\* after FONTBOUNDINGBOX, BBX and a BITMAP sized by the BBX, a second BITMAP
\* has been sized by the font bounding box
SecondBitmapReached ==
    /\ Len(outcomes) = 4
    /\ Gave(1, "FontBoundingBox") /\ Gave(2, "BoundingBox")
    /\ Gave(3, "Bitmap") /\ Gave(4, "Bitmap")
    /\ outcomes[3].ret.value.map.width = 2
    /\ outcomes[4].ret.value.map.width = 1
    /\ reader.current = None

\* C26 as stated: after every call of entry() the line counter is the number
\* of lines consumed from the stream, and a call that returns a Bitmap record
\* has consumed as many lines after the BITMAP line as the bitmap is high
RowsCounted ==
    \A k \in Calls :
        /\ outcomes[k].counter = outcomes[k].upto
        /\ Gave(k, "Bitmap") =>
                outcomes[k].upto - outcomes[k].line =
                    outcomes[k].ret.value.map.height

\* the outcomes of the calls of entry() on a stream, up to the one that finds
\* it ended
RECURSIVE Run(_, _)
Run(rd, st) ==
    LET out == ReaderEntry(rd, st)
    IN  <<out.ret>> \o (IF out.ret = Err(End) THEN <<>>
                        ELSE Run(out.reader, out.stream))

\* an outcome without the line number of its diagnostic
Unnumbered(r) ==
    IF IsErr(r) /\ "line_number" \in DOMAIN r.error
    THEN [r EXCEPT !.error.line_number = 0]
    ELSE r

\* the lines that are not empty
Compact(lines) == SelectSeq(lines, LAMBDA l : l # <<>>)

\* an empty line is among the rows a BITMAP call has consumed
BlankRow ==
    \E k \in Calls :
        /\ OnBitmap(k)
        /\ \E p \in (outcomes[k].line + 1)..outcomes[k].upto : input[p] = <<>>

\* C27 as stated: on a stream whose empty lines are outside the bitmap rows,
\* the calls of entry() return what they return on the stream without its
\* empty lines, the line numbers apart, and the line number of every
\* diagnostic is the position in the stream of the line that failed
BlankLinesSkipped ==
    (pc = "ended" /\ ~BlankRow) =>
        /\ [k \in Calls |-> Unnumbered(outcomes[k].ret)] =
                [k \in DOMAIN Run(ReaderNew, Compact(input)) |->
                    Unnumbered(Run(ReaderNew, Compact(input))[k])]
        /\ \A k \in Calls :
            (IsErr(outcomes[k].ret) /\ "line_number" \in DOMAIN outcomes[k].ret.error)
                => outcomes[k].ret.error.line_number = outcomes[k].upto


---------------------------------------------------------------------------
(* entry(): the records of numbers *)

\* the types of the fields of the records that split their remainder
FieldTypes ==
    [SIZE |-> <<U16, U16, U16>>, FONTBOUNDINGBOX |-> BoxTypes, BBX |-> BoxTypes,
     SWIDTH |-> <<U32, U32>>, DWIDTH |-> <<U32, U32>>, SWIDTH1 |-> <<U32, U32>>,
     DWIDTH1 |-> <<U32, U32>>, VVECTOR |-> <<U32, U32>>]

\* the records whose remainder is one number
CountIds == {"CHARS", "STARTPROPERTIES"}

\* the number of fields the claim gives the record id
Arity(id) == IF id \in CountIds THEN 1 ELSE Len(FieldTypes[id])

\* the fields of the remainder of the line parsed
FieldsGiven == Split(Remainder)

\* every field is an integer of its type
FieldsValid(types) ==
    /\ Len(FieldsGiven) = Len(types)
    /\ \A i \in 1..Len(types) : ParseInt(FieldsGiven[i], types[i]).ok

\* entry() has failed with Parse, the number and the text of the line
ParseFailure == ret = Err(ParseError(Line, Len(input)))

\* the rules of a record id that splits its remainder
SplitRules(id) ==
    /\ Len(FieldsGiven) # Arity(id) => ret = Err(MissingValue(<<id>>, Len(input)))
    /\ (Len(FieldsGiven) = Arity(id) /\ ~FieldsValid(FieldTypes[id])) => ParseFailure
    /\ FieldsValid(FieldTypes[id]) => IsOk(ret)

\* C28 as stated: a remainder whose number of fields is not the arity of the
\* record makes entry() fail with MissingValue naming the identifier, for
\* CHARS and STARTPROPERTIES as for the records of two, three and four
\* numbers; Parse is the failure only of a remainder with the right number of
\* fields
FixedArity ==
    /\ \A id \in DOMAIN FieldTypes : Parsed(id) => SplitRules(id)
    /\ \A id \in CountIds : Parsed(id) =>
        /\ Len(FieldsGiven) # 1 => ret = Err(MissingValue(<<id>>, Len(input)))
        /\ (Len(FieldsGiven) = 1 /\ ~ParseInt(Remainder, Usize).ok) => ParseFailure
        /\ (Len(FieldsGiven) = 1 /\ ParseInt(Remainder, Usize).ok) => IsOk(ret)

\* C28: SIZE, FONTBOUNDINGBOX, BBX and the width and vector pairs split their
\* remainder: a number of fields that is not the arity is MissingValue naming
\* the identifier, the right number with a field that is no integer of its
\* type is Parse with the number and the text of the line.  CHARS and
\* STARTPROPERTIES do not split it: the remainder is one integer, or the
\* failure is Parse, also when it has several fields
FixedArityOfSplit ==
    /\ \A id \in DOMAIN FieldTypes : Parsed(id) => SplitRules(id)
    /\ \A id \in CountIds : Parsed(id) =>
        /\ ~ParseInt(Remainder, Usize).ok => ParseFailure
        /\ ParseInt(Remainder, Usize).ok =>
                /\ Len(FieldsGiven) = 1
                /\ IsOk(ret)
                /\ ret.value.n = ParseInt(Remainder, Usize).value

\* a CHARS line of two numbers, second line of its stream, has failed with
\* Parse
CharsOfTwoReached ==
    /\ Parsed("CHARS")
    /\ Len(input) = 2
    /\ Len(FieldsGiven) = 2
    /\ \A i \in 1..2 : ParseInt(FieldsGiven[i], Usize).ok
    /\ ret = Err(ParseError(Line, 2))


---------------------------------------------------------------------------
(* read(): the end of the stream *)

\* C29: read() returns a font only on an ENDFONT record taken inside the
\* font, outside every block; and the turn that finds the stream ended,
\* whatever the scope, returns the End error
EndNotSwallowed ==
    /\ []((Returned /\ IsOk(ret)) =>
            /\ entry = EndFont
            /\ in_font /\ ~in_char /\ ~in_props
            /\ \E i \in 1..Len(input) :
                    input[i] = <<"ENDFONT">> /\ Len(stream) = Len(input) - i)
    /\ [][(pc = "loop" /\ LeadingEmpty(stream) = Len(stream)) =>
            (pc' = "returned" /\ ret' = Err(End) /\ UNCHANGED assembly)]_vars

\* the stream has ended inside a character block of a font that has its name,
\* its size and its bounds
EndInCharReached ==
    /\ Returned
    /\ ret = Err(End)
    /\ stream = <<>>
    /\ in_font /\ in_char
    /\ FontValidate(font)
    /\ glyph.bounds.some


---------------------------------------------------------------------------
(* read(): ENDCHAR *)

\* the stream whose one block has no BBX line, its bitmap sized by a font
\* bounding box of one pixel
UnboxedStream ==
    <<StartFontLine, FontLine, SizeLine, SmallBoundsLine>>
        \o BlockUnboxed \o EndFontLine

\* the turn closes the character block: the glyph under construction is the
\* default glyph again and the skip mark is cleared
Closes ==
    /\ pc' = "loop"
    /\ glyph' = GlyphDefault
    /\ ~skip_current_char'
    /\ ~in_char'
    /\ UNCHANGED <<in_font, in_props>>

\* C30: a turn of read() on ENDCHAR in a character block that is marked
\* stores nothing and closes the block; in a block that is not marked it
\* stores the glyph under its codepoint and closes the block when the glyph
\* has a bounding box and a bitmap, and returns MalformedChar, the glyph not
\* stored, when one of them is missing: so does read() on a block without BBX
\* whose bitmap was sized by the font bounding box
EndCharFinalizes ==
    /\ [][(pc = "loop" /\ in_char /\ entry'.tag = "EndChar") =>
            IF skip_current_char THEN Closes /\ font' = font
            ELSE IF glyph.bounds.some /\ glyph.map.some
            THEN /\ Closes
                 /\ DOMAIN font'.glyphs = DOMAIN font.glyphs \cup {glyph.codepoint}
                 /\ \A c \in DOMAIN font'.glyphs :
                        font'.glyphs[c] =
                            IF c = glyph.codepoint THEN glyph ELSE font.glyphs[c]
                 /\ [font' EXCEPT !.glyphs = <<>>] = [font EXCEPT !.glyphs = <<>>]
            ELSE /\ pc' = "returned"
                 /\ ret' = Err(MalformedChar)
                 /\ font' = font]_vars
    /\ []((Returned /\ input = UnboxedStream) =>
            /\ ret = Err(MalformedChar)
            /\ entry = EndChar
            /\ glyph.map.some /\ ~glyph.bounds.some)

\* ENDCHAR has arrived in a block that has a bitmap, sized by the font
\* bounding box, and no bounding box of its own
UnboxedEndCharReached ==
    /\ Returned
    /\ input = UnboxedStream
    /\ entry = EndChar
    /\ in_char /\ ~skip_current_char
    /\ glyph.map = Some([width |-> 1, height |-> 1, bits |-> {0}])
    /\ ~glyph.bounds.some
    /\ font.glyphs = <<>>
    /\ ret = Err(MalformedChar)


---------------------------------------------------------------------------
(* Reader: the bounding boxes it keeps *)

\* entry() has been called, by the scenario or inside next()
Called == pc \in {"next", "iterate"}

\* C31: a call of entry() changes the font bounding box the Reader keeps only
\* by returning a FONTBOUNDINGBOX record, whose box it then keeps; it changes
\* the character bounding box only by returning a BBX record, whose box it
\* then keeps, or a Bitmap record, after which it keeps none; a call that
\* returns another record or fails leaves both as they were
BoxFrame ==
    [][Called =>
        /\ IF entry'.tag = "FontBoundingBox"
           THEN reader'.default = Some(entry'.bbx)
           ELSE reader'.default = reader.default
        /\ IF entry'.tag = "BoundingBox"
           THEN reader'.current = Some(entry'.bbx)
           ELSE IF entry'.tag = "Bitmap"
           THEN reader'.current = None
           ELSE reader'.current = reader.current]_vars

\* a BITMAP whose row is no number has failed and the Reader still keeps the
\* character bounding box and the font bounding box it had
FailedBitmapReached ==
    /\ pc = "next"
    /\ Len(outcomes) = 3
    /\ Gave(1, "FontBoundingBox") /\ Gave(2, "BoundingBox")
    /\ OnBitmap(3)
    /\ IsErr(ret) /\ ret.error.kind = "Parse"
    /\ reader.current = Some(BoundingBox(3, 2, 0, 0))
    /\ reader.default = Some(BoundingBox(1, 0, 0, 0))


---------------------------------------------------------------------------
(* write(): the counts *)

\* the positions of the lines of a kind among the lines written
Positions(kind) == {i \in 1..Len(sink) : Kinds[i] = kind}

\* the number the line at position i states
Stated(i) == ParseInt(SubSeq(sink[i], 3, Len(sink[i])), Usize)

\* the character blocks after position i: a STARTCHAR line and the first
\* ENDCHAR line after it, no other STARTCHAR line between them
BlocksAfter(i) ==
    {s \in Positions("STARTCHAR") :
        /\ s > i
        /\ \E e \in Positions("ENDCHAR") :
            /\ e > s
            /\ \A k \in (s + 1)..(e - 1) : Kinds[k] \notin {"STARTCHAR", "ENDCHAR"}}

\* C32: the lines write() has written have one CHARS line, whose number is
\* the number of character blocks after it, every STARTCHAR and ENDCHAR line
\* being of such a block; they have a property block exactly when the
\* property table is not empty, and then one, whose STARTPROPERTIES line
\* states the number of lines between it and ENDPROPERTIES
CountsConsistent ==
    Saved =>
        /\ Cardinality(Positions("CHARS")) = 1
        /\ \A c \in Positions("CHARS") :
            /\ Stated(c).ok
            /\ Stated(c).value = Cardinality(BlocksAfter(c))
            /\ Positions("STARTCHAR") = BlocksAfter(c)
            /\ Cardinality(Positions("ENDCHAR")) = Cardinality(BlocksAfter(c))
        /\ Positions("STARTPROPERTIES") # {} <=> DOMAIN font.properties # {}
        /\ Positions("ENDPROPERTIES") # {} <=> DOMAIN font.properties # {}
        /\ Cardinality(Positions("STARTPROPERTIES")) <= 1
        /\ Cardinality(Positions("ENDPROPERTIES")) <= 1
        /\ \A s \in Positions("STARTPROPERTIES"), e \in Positions("ENDPROPERTIES") :
            /\ s < e
            /\ Stated(s).ok
            /\ Stated(s).value = e - s - 1
            /\ Stated(s).value = Cardinality(DOMAIN font.properties)

\* a font of two properties and two glyphs has been written
TwoAndTwoWritten ==
    /\ Saved
    /\ Cardinality(DOMAIN font.properties) = 2
    /\ Cardinality(DOMAIN font.glyphs) = 2
    /\ \E s, c \in 1..Len(sink) :
        /\ sink[s] = <<"STARTPROPERTIES", " ", "2">>
        /\ sink[s + 3] = <<"ENDPROPERTIES">>
        /\ sink[c] = <<"CHARS", " ", "2">>
        /\ Cardinality(BlocksAfter(c)) = 2


---------------------------------------------------------------------------
(* read(): the scopes, together *)

\* read() is at font top level
AtTopLevel == in_font /\ ~in_props /\ ~in_char

\* C33: read() never has a property block and a character block open
\* together, nor one of them open before STARTFONT; a turn opens a property
\* block only on STARTPROPERTIES at font top level and closes it only on
\* ENDPROPERTIES, opens a character block only on STARTCHAR at font top level
\* and closes it only on ENDCHAR; and a turn enters the font only on
\* STARTFONT, at font top level, and never leaves it
ScopeExclusion ==
    /\ [](~(in_props /\ in_char) /\ ((in_props \/ in_char) => in_font))
    /\ [][pc = "loop" =>
            /\ (in_props' # in_props \/ in_char' # in_char) =>
                \/ AtTopLevel /\ entry'.tag = "StartProperties"
                        /\ in_props' /\ ~in_char'
                \/ in_props /\ entry'.tag = "EndProperties" /\ AtTopLevel'
                \/ AtTopLevel /\ entry'.tag = "StartChar" /\ in_char' /\ ~in_props'
                \/ in_char /\ entry'.tag = "EndChar" /\ AtTopLevel'
            /\ in_font' # in_font =>
                ~in_font /\ entry'.tag = "StartFont" /\ AtTopLevel']_vars

\* a character block is open after a property block was opened and closed
CharAfterPropertiesReached ==
    /\ pc = "loop"
    /\ in_font /\ in_char /\ ~in_props
    /\ DOMAIN font.properties # {}
    /\ entry.tag = "StartChar"


---------------------------------------------------------------------------
(* entry(): totality *)

\* C34 as stated: entry() returns a record or an error on every line, the
\* lines whose remainder is empty, one quote or a quoted text that is not
\* closed among them; it never panics
EntryTotal == pc = "rewrite" => (IsOk(ret) \/ IsErr(ret))


---------------------------------------------------------------------------
(* read(): the bitmap and the bounding box of a glyph *)

\* C35 as stated: in a font read() returns, the bitmap of every glyph is as
\* wide and as high as the bounding box of the glyph
BitmapMatchesBox ==
    (Returned /\ IsOk(ret)) =>
        \A c \in DOMAIN ret.value.glyphs :
            /\ ret.value.glyphs[c].map.value.width
                    = ret.value.glyphs[c].bounds.value.width
            /\ ret.value.glyphs[c].map.value.height
                    = ret.value.glyphs[c].bounds.value.height


---------------------------------------------------------------------------
(* read(): the skip mark *)

\* the STARTCHAR line that opens the block the ENDCHAR at i closes
StartOf(i) ==
    CHOOSE s \in RecordsOf(i, "StartChar") :
        \A t \in RecordsOf(i, "StartChar") : s <= t

\* an ENCODING line whose number is no char lies between the STARTCHAR and
\* the ENDCHAR of the block
MarkedInside(i) ==
    /\ RecordsOf(i, "StartChar") # {}
    /\ \E j \in (StartOf(i) + 1)..(i - 1) :
        IsErr(RecordOf(input[j])) /\ RecordOf(input[j]).error.kind = "InvalidCodepoint"

\* C36 as stated: in a font read() returns, the glyph table has the codepoint
\* of every block closed by ENDCHAR that has no ENCODING line of an invalid
\* codepoint between its own STARTCHAR and ENDCHAR: such a line before
\* STARTFONT, at font top level or in a property block drops no glyph
SkipMarkLocal ==
    (Returned /\ IsOk(ret)) =>
        \A i \in EndChars :
            ~MarkedInside(i) => CodeOf(i) \in DOMAIN ret.value.glyphs


---------------------------------------------------------------------------
(* Reader as an iterator *)

\* C37 as stated: next() returns None exactly when the call of entry() inside
\* it has found the stream ended; on a line entry() fails on for another
\* reason the iteration goes on
IteratorEndsAtEnd ==
    (pc \in {"iterate", "exhausted"} /\ Len(outcomes) > 0) =>
        /\ ret = None <=> outcomes[Len(outcomes)].ret = Err(End)
        /\ pc = "exhausted" <=> outcomes[Len(outcomes)].ret = Err(End)


---------------------------------------------------------------------------
(* read(): termination *)

\* C38: every turn of the loop of read() returns or takes at least one line
\* from the stream, the turn on an ENCODING line whose number is no char
\* among them; so read(), started on a finite stream, returns
ReadTerminates ==
    /\ [][pc = "loop" => (pc' = "returned" \/ Len(stream') < Len(stream))]_vars
    /\ (pc = "loop") ~> (pc = "returned")

\* read() has returned a font from a stream with a block of an invalid
\* codepoint, all its lines taken
SkippedAndReturned ==
    /\ Returned
    /\ IsOk(ret)
    /\ Occurs(<<StrayLine>>, input)
    /\ stream = <<>>

===========================================================================
